---- MODULE Spec2Model ----
(***************************************************************************)
(* Heatworks: layout of CD profiles, heat plates and pipe circuits for a   *)
(* ceiling-heating room (src/src/utils/GridCalculator.ts,                  *)
(* src/src/utils/PipeRouter.ts) and the application store that drives them *)
(* (src/src/store/useStore.ts).                                            *)
(*                                                                         *)
(* Numbers.  The program computes in IEEE doubles.  The model computes in  *)
(* fixed point: a pixel quantity is an integer number of 1/1000 px, a      *)
(* millimetre quantity an integer number of 1/1000 mm; every division      *)
(* rounds down.  pxPerMeter is a plain integer (px per metre).             *)
(***************************************************************************)
EXTENDS Integers, Sequences, FiniteSets, TLC

VARIABLES
  \* ---- calculateCircuits (PipeRouter.ts): one call in progress
  rpc,               \* position in calculateCircuits: "idle", "loop", "done"
  args,              \* the call's arguments [heatPlates, connectionSide, orientation, pxPerMeter]
  blocks,            \* const blocks (PipeRouter.ts:56)
  blockIndex,        \* forEach index (0-based), the next block to process
  currentPathParts,  \* let currentPathParts (PipeRouter.ts:64)
  currentLengthMm,   \* let currentLengthMm (PipeRouter.ts:65)
  circuits,          \* const circuits (PipeRouter.ts:63); the return value at "done"
  outcome,           \* "none" while running, "returned", or "threw" (a TypeError)
  \* ---- quantizeLength (GridCalculator.ts): one application
  qpc,               \* "idle", "once" (quantized is set), "twice" (requantized is set)
  lengthMM,          \* the argument of quantizeLength
  quantized,         \* quantizeLength(lengthMM)
  requantized,       \* quantizeLength(quantized)
  \* ---- generateRoomGrid (GridCalculator.ts): one call in progress
  gpc,               \* "idle", "profiles" (loop of generateCDProfiles), "plates"
                     \* (generateHeatPlates entered), "pairs" (its loop), "done"
  gridRoom,          \* the Room argument: [points, orientation, systemType]
  gridPxPerMeter,    \* this.pxPerMeter of the calculator
  profileIndex,      \* loop index i of generateCDProfiles
  cdProfiles,        \* const profiles (GridCalculator.ts:185); const cdProfiles (737)
  pairIndex,         \* loop index i of generateHeatPlates
  heatPlates,        \* const plates (GridCalculator.ts:442); const heatPlates (738)
  \* ---- the application store (useStore.ts); null is 0 for pxPerMeter and the
  \* empty sequence for an object (a present object is a sequence of one)
  pdf,               \* [pxPerMeter]
  calibration,       \* [isCalibrating, line, isDrawingLine]
  rooms,             \* Room[]: [id, name, points, systemType, orientation, connectionSide,
                     \* connectionPoint, cdProfiles, heatPlates, heatingCircuits]
  roomDrawing,       \* [isActive, currentPoints, pendingRoom]
  settings,          \* GlobalSettings: [cdProfileSpacing, wallBuffer]
  notice,            \* what the last operation told the user or the console (alert,
                     \* console.warn, console.log of a refusal), "none" if nothing
  \* ---- createDXFStyleTurn (PipeRouter.ts): one application
  tpc,               \* "idle", "returned" (turnResult is set)
  turnArgs,          \* [p1, p2, depth, side, orientation, pxPerMeter]
  turnResult,        \* the return value: [pathData, lengthMm]
  \* ---- castVerticalRay / castHorizontalRay (GridCalculator.ts): one application
  rayArgs,           \* [ray, c, polygon]: "vertical" at x = c or "horizontal" at y = c
  rayResult          \* the return value: the intersections

routerVars == <<rpc, args, blocks, blockIndex, currentPathParts, currentLengthMm,
                circuits, outcome>>
quantVars == <<qpc, lengthMM, quantized, requantized>>
gridVars == <<gpc, gridRoom, gridPxPerMeter, profileIndex, cdProfiles, pairIndex, heatPlates>>
storeVars == <<pdf, calibration, rooms, roomDrawing, settings, notice>>
turnVars == <<tpc, turnArgs, turnResult>>
rayVars == <<rayArgs, rayResult>>
vars == <<routerVars, quantVars, gridVars, storeVars, turnVars, rayVars>>

-----------------------------------------------------------------------------
(* Fixed-point arithmetic *)

\* n whole units (px or mm) as a fixed-point quantity
Fix(n) == n * 1000

Abs(a) == IF a < 0 THEN -a ELSE a
Min(a, b) == IF a < b THEN a ELSE b
Max(a, b) == IF a > b THEN a ELSE b

\* floor(a * b / c) for c > 0, without forming a * b
MulDiv(a, b, c) == (a \div c) * b + ((a % c) * b) \div c

RECURSIVE IsqrtIter(_, _, _)
IsqrtIter(n, lo, hi) ==
  IF lo >= hi THEN lo
  ELSE LET mid == (lo + hi + 1) \div 2
       IN IF mid * mid <= n THEN IsqrtIter(n, mid, hi) ELSE IsqrtIter(n, lo, mid - 1)

\* floor(sqrt(n)) for 0 <= n < 2^31
Isqrt(n) == IsqrtIter(n, 0, 46340)

-----------------------------------------------------------------------------
(* PipeRouter.ts *)

MAX_CIRCUIT_LENGTH_MM == 100000
STUB_LENGTH_MM == 150
MAX_TURN_DEPTH_MM == 250
SMALL_TURN_DEPTH_MM == 150

CIRCUIT_COLORS ==
  <<"#32CD32", "#228B22", "#FF6600", "#0066FF", "#9933FF", "#FF3399">>

\* function mmToPx(mm, pxPerMeter): (mm / 1000) * pxPerMeter
mmToPx(mm, pxPerMeter) == MulDiv(mm, pxPerMeter, 1000)

\* the inverse conversion the code writes inline: (px / pxPerMeter) * 1000
pxToMm(px, pxPerMeter) == MulDiv(px, 1000, pxPerMeter)

\* function distance(p1, p2): sqrt(dx*dx + dy*dy).  Exact when the points share
\* a coordinate; otherwise the root is taken at a resolution of 1/10 px.
distance(p1, p2) ==
  LET dx == p2.x - p1.x
      dy == p2.y - p1.y
  IN IF dy = 0 THEN Abs(dx)
     ELSE IF dx = 0 THEN Abs(dy)
     ELSE 100 * Isqrt((dx \div 100) * (dx \div 100) + (dy \div 100) * (dy \div 100))

getTurnSide(connectionSide) ==
  IF connectionSide = "top" THEN "bottom"
  ELSE IF connectionSide = "bottom" THEN "top"
  ELSE IF connectionSide = "left" THEN "right"
  ELSE "left"

getSideVector(side) ==
  IF side = "top" THEN [x |-> 0, y |-> -1]
  ELSE IF side = "bottom" THEN [x |-> 0, y |-> 1]
  ELSE IF side = "left" THEN [x |-> -1, y |-> 0]
  ELSE [x |-> 1, y |-> 0]

getPlateEnds(plate, orientation, connectionSide) ==
  LET p1 == [x |-> plate.x1, y |-> plate.y1]
      p2 == [x |-> plate.x2, y |-> plate.y2]
  IN IF orientation = "Vertical"
     THEN IF connectionSide = "bottom"
          THEN IF p1.y > p2.y THEN [connectionEnd |-> p1, turnEnd |-> p2]
                              ELSE [connectionEnd |-> p2, turnEnd |-> p1]
          ELSE IF p1.y < p2.y THEN [connectionEnd |-> p1, turnEnd |-> p2]
                              ELSE [connectionEnd |-> p2, turnEnd |-> p1]
     ELSE IF connectionSide = "left"
          THEN IF p1.x < p2.x THEN [connectionEnd |-> p1, turnEnd |-> p2]
                              ELSE [connectionEnd |-> p2, turnEnd |-> p1]
          ELSE IF p1.x > p2.x THEN [connectionEnd |-> p1, turnEnd |-> p2]
                              ELSE [connectionEnd |-> p2, turnEnd |-> p1]

\* mutant: the radius never shrinks
ConfiguredRadiusMm(gapMm) == Fix(50)

\* const actualRadiusMm = Math.min(radiusMm, halfGapMm), radiusMm = 50
ActualRadiusMm(gapMm) == Min(Fix(50), gapMm \div 2)

\* if (span < actualRadiusPx * 2): the straight-line fallback is taken
TurnFallsBack(span, actualRadiusPx) == span < actualRadiusPx * 2

\* mutant: the two arcs without the straight parts
TurnLengthOfArcs(actualRadiusPx) ==
  MulDiv(actualRadiusPx, 355, 226) + MulDiv(actualRadiusPx, 355, 226)

\* lengthPx of the flattened U: distance(p1, cornerStart) + PI*r/2 +
\* distance(cornerEnd, bridgeEnd) + PI*r/2 + distance(endStart, p2).  The
\* corner points lie r from p1 and p2 and r either side of the turn point along
\* the unit vector p1->p2, so the three straight parts measure r, 2r and r.
\* PI is taken as 355/113.
TurnLengthPx(actualRadiusPx) ==
  actualRadiusPx + MulDiv(actualRadiusPx, 355, 226)
    + 2 * actualRadiusPx + MulDiv(actualRadiusPx, 355, 226) + actualRadiusPx

\* the sign of crossProduct = (p2-p1) x (turn-p1).  turn - p1 is
\* (p2-p1)/2 + dir*depthPx, so the product equals depthPx * ((p2-p1) x dir).
SweepFlag1(p1, p2, dir, depthPx) ==
  LET c == (p2.x - p1.x) * dir.y - (p2.y - p1.y) * dir.x
  IN IF (depthPx > 0 /\ c > 0) \/ (depthPx < 0 /\ c < 0) THEN 1 ELSE 0

\* function createDXFStyleTurn: [pathData, lengthMm].  pathData is the string's
\* content: the command kind and the numbers it is printed from.
createDXFStyleTurn(p1, p2, depth, side, orientation, pxPerMeter) ==
  LET depthPx == mmToPx(depth, pxPerMeter)
      dir == getSideVector(side)
      gapPx == distance(p1, p2)
      gapMm == pxToMm(gapPx, pxPerMeter)
      actualRadiusMm == ActualRadiusMm(gapMm)
      actualRadiusPx == mmToPx(actualRadiusMm, pxPerMeter)
      span == distance(p1, p2)
      turn == [x |-> (p1.x + p2.x) \div 2 + dir.x * depthPx,
               y |-> (p1.y + p2.y) \div 2 + dir.y * depthPx]
      sweepFlag1 == SweepFlag1(p1, p2, dir, depthPx)
  IN IF TurnFallsBack(span, actualRadiusPx)
     THEN [pathData |-> [shape |-> "line", p1 |-> p1, p2 |-> p2],
           lengthMm |-> pxToMm(span, pxPerMeter)]
     ELSE [pathData |-> [shape |-> "turn", p1 |-> p1, p2 |-> p2,
                         radius |-> actualRadiusPx, turn |-> turn,
                         sweep1 |-> sweepFlag1, sweep2 |-> 1 - sweepFlag1],
           lengthMm |-> pxToMm(TurnLengthPx(actualRadiusPx), pxPerMeter)]

\* const turnPairs (0-based plate indices of a block)
turnPairs == <<<<0, 7>>, <<1, 6>>, <<2, 5>>, <<3, 4>>>>

\* mutant: the pairs counted from 1, the innermost turn flat
TurnDepthFromOne(index) ==
  MulDiv(Fix(MAX_TURN_DEPTH_MM), Len(turnPairs) - (index + 1), Len(turnPairs))

\* const depth = MAX_TURN_DEPTH_MM * ((pairCount - index) / pairCount)
TurnDepthMm(index) ==
  MulDiv(Fix(MAX_TURN_DEPTH_MM), Len(turnPairs) - index, Len(turnPairs))

\* the straight stub of the start block: M start L start + connDir * stubPx
Stub(start, connDir, stubPx) ==
  [shape |-> "line", p1 |-> start,
   p2 |-> [x |-> start.x + connDir.x * stubPx, y |-> start.y + connDir.y * stubPx]]

\* mutant: the loops of a standard block in every block
StandardPairs(isStartBlock) == <<<<0, 3>>, <<1, 2>>, <<4, 7>>, <<5, 6>>>>

\* the connection-side loops of a block as pairs of 0-based plate indices
ConnectionPairs(isStartBlock) ==
  IF isStartBlock THEN <<<<2, 3>>, <<4, 7>>, <<5, 6>>>>
  ELSE <<<<0, 3>>, <<1, 2>>, <<4, 7>>, <<5, 6>>>>

RECURSIVE SumLengths(_)
SumLengths(s) == IF s = <<>> THEN 0 ELSE Head(s).lengthMm + SumLengths(Tail(s))

\* function generatePatternPaths: [pathData, lengthMm] of one block, or the
\* TypeError of reading .turnEnd of plateEnds[a] when the block has no plate a.
generatePatternPaths(plates, connectionSide, orientation, pxPerMeter, blkIndex) ==
  IF Len(plates) < 8 THEN [threw |-> TRUE, pathData |-> <<>>, lengthMm |-> 0]
  ELSE
  LET plateEnds == [k \in 1..Len(plates) |->
                      getPlateEnds(plates[k], orientation, connectionSide)]
      turnSide == getTurnSide(connectionSide)
      isStartBlock == blkIndex = 0
      turns == [i \in 1..Len(turnPairs) |->
                  createDXFStyleTurn(plateEnds[turnPairs[i][1] + 1].turnEnd,
                                     plateEnds[turnPairs[i][2] + 1].turnEnd,
                                     TurnDepthMm(i - 1), turnSide, orientation,
                                     pxPerMeter)]
      stubPx == mmToPx(Fix(STUB_LENGTH_MM), pxPerMeter)
      connDir == getSideVector(connectionSide)
      stubs == IF isStartBlock
               THEN <<[pathData |-> Stub(plateEnds[1].connectionEnd, connDir, stubPx),
                       lengthMm |-> Fix(STUB_LENGTH_MM)],
                      [pathData |-> Stub(plateEnds[2].connectionEnd, connDir, stubPx),
                       lengthMm |-> Fix(STUB_LENGTH_MM)]>>
               ELSE <<>>
      pairs == ConnectionPairs(isStartBlock)
      loops == [i \in 1..Len(pairs) |->
                  createDXFStyleTurn(plateEnds[pairs[i][1] + 1].connectionEnd,
                                     plateEnds[pairs[i][2] + 1].connectionEnd,
                                     Fix(SMALL_TURN_DEPTH_MM), connectionSide,
                                     orientation, pxPerMeter)]
      parts == turns \o stubs \o loops
  IN [threw |-> FALSE,
      pathData |-> [i \in 1..Len(parts) |-> parts[i].pathData],
      lengthMm |-> SumLengths(parts)]

\* the sort key of sortPlates: x1 for Vertical, y1 otherwise
SortKey(plate, orientation) == IF orientation = "Vertical" THEN plate.x1 ELSE plate.y1

\* mutant: the comparator is reversed
ComesAfter(ka, kb) == ka > kb

\* a comes before b under the comparator (a, b) => key(a) - key(b)
ComesBefore(ka, kb) == ka < kb

\* function sortPlates: Array.prototype.sort is stable, so a plate's place is
\* one more than the number of plates that come before it, or tie with it and
\* stood earlier in the list
sortPlates(plates, orientation) ==
  LET n == Len(plates)
      key(k) == SortKey(plates[k], orientation)
      placed == {<<1 + Cardinality({j \in 1..n :
                                     \/ ComesBefore(key(j), key(k))
                                     \/ (~ComesBefore(key(k), key(j)) /\ j < k)}), k>> :
                   k \in 1..n}
  IN [i \in 1..n |-> plates[(CHOOSE pr \in placed : pr[1] = i)[2]]]

\* function chunkPlates: slices [i, i + size) for i = 0, size, 2*size, ...
chunkPlates(plates, size) ==
  [c \in 1..((Len(plates) + size - 1) \div size) |->
     SubSeq(plates, (c - 1) * size + 1, Min(c * size, Len(plates)))]

\* mutant: partial blocks pass the filter
IsAnyBlock(block) == Len(block) >= 1

\* .filter((block) => block.length === 8)
IsFullBlock(block) == Len(block) = 8

FilterFull(chunks) == SelectSeq(chunks, IsFullBlock)

\* mutant: the length test is dropped
JoinsAlways(parts, lengthSoFar, blockLengthMm) == TRUE

\* mutant: only the first block of a circuit joins it
JoinsOnlyEmpty(parts, lengthSoFar, blockLengthMm) == Len(parts) = 0

\* mutant: a block joins only while there is room for one more like it
JoinsWithRoomToSpare(parts, lengthSoFar, blockLengthMm) ==
  Len(parts) = 0 \/ (lengthSoFar + 2 * blockLengthMm) <= Fix(MAX_CIRCUIT_LENGTH_MM)

\* the test of PipeRouter.ts:73: the block joins the current circuit
JoinsCurrent(parts, lengthSoFar, blockLengthMm) ==
  Len(parts) = 0 \/ (lengthSoFar + blockLengthMm) <= Fix(MAX_CIRCUIT_LENGTH_MM)

\* mutant: every circuit in the first colour of the palette
PushCircuitOneColour(cs, parts, lengthSoFar) ==
  Append(cs, [id |-> <<"circuit", Len(cs)>>,
              color |-> CIRCUIT_COLORS[1],
              pathData |-> parts,
              length |-> lengthSoFar])

\* circuits.push({id, color, pathData, length}) (PipeRouter.ts:77-82, 92-97)
PushCircuit(cs, parts, lengthSoFar) ==
  Append(cs, [id |-> <<"circuit", Len(cs)>>,
              color |-> CIRCUIT_COLORS[(Len(cs) % Len(CIRCUIT_COLORS)) + 1],
              pathData |-> parts,
              length |-> lengthSoFar])

\* mutant: a new circuit keeps the length of the one just closed
BlockStepKeepsLength(acc, blockPath) ==
  IF acc.parts = <<>> \/ (acc.len + blockPath.lengthMm) <= Fix(MAX_CIRCUIT_LENGTH_MM)
  THEN [parts |-> Append(acc.parts, blockPath.pathData),
        len |-> acc.len + blockPath.lengthMm,
        circuits |-> acc.circuits]
  ELSE [parts |-> <<blockPath.pathData>>,
        len |-> acc.len + blockPath.lengthMm,
        circuits |-> Append(acc.circuits,
                            [id |-> <<"circuit", Len(acc.circuits)>>,
                             color |-> CIRCUIT_COLORS[(Len(acc.circuits) % 6) + 1],
                             pathData |-> acc.parts, length |-> acc.len])]

\* one iteration of blocks.forEach on the accumulator [parts, len, circuits]
BlockStep(acc, blockPath) ==
  IF blockPath.pathData = <<>> THEN acc
  ELSE IF JoinsCurrent(acc.parts, acc.len, blockPath.lengthMm)
       THEN [parts |-> Append(acc.parts, blockPath.pathData),
             len |-> acc.len + blockPath.lengthMm,
             circuits |-> acc.circuits]
       ELSE [parts |-> <<blockPath.pathData>>,
             len |-> blockPath.lengthMm,
             circuits |-> PushCircuit(acc.circuits, acc.parts, acc.len)]

\* if (currentPathParts.length > 0) circuits.push(...) (PipeRouter.ts:91-98)
FinishCircuits(acc) ==
  IF Len(acc.parts) > 0 THEN PushCircuit(acc.circuits, acc.parts, acc.len)
  ELSE acc.circuits

-----------------------------------------------------------------------------
(* Inputs of calculateCircuits *)

\* most complete blocks of 8 plates in a generated plate list
MaxBlocks == 36

Orientations == {"Vertical", "Horizontal"}
ConnectionSides == {"top", "bottom", "left", "right"}
RouterScales == {500, 1000}

\* plates per profile gap and the stride between them (1/1000 mm), as
\* generateHeatPlates lays them out: 4 at 50 + 45.333333, 6 at 50 + 7.2
Layouts == {[perGap |-> 4, stride |-> 95333], [perGap |-> 6, stride |-> 57200]}

\* the k-th plate (0-based) of a layout: gaps lie 400 mm apart, every other gap
\* has its safe zone shifted by stagger
PlateAt(k, layout, stagger, pxPerMeter, orientation) ==
  LET g == k \div layout.perGap
      j == k % layout.perGap
      pos == mmToPx(Fix(100 + g * 400) + j * layout.stride, pxPerMeter)
      s == mmToPx(Fix(300) + (g % 2) * stagger, pxPerMeter)
      e == s + mmToPx(Fix(2000), pxPerMeter)
  IN IF orientation = "Vertical"
     THEN [id |-> k, x1 |-> pos, y1 |-> s, x2 |-> pos, y2 |-> e]
     ELSE [id |-> k, x1 |-> s, y1 |-> pos, x2 |-> e, y2 |-> pos]

\* n plates, in layout order or in the reverse of it
PlateList(n, layout, stagger, pxPerMeter, orientation, reversed) ==
  [i \in 1..n |-> PlateAt(IF reversed THEN n - i ELSE i - 1, layout, stagger,
                          pxPerMeter, orientation)]

Call(plates, side, o, ppm) ==
  [given |-> TRUE, heatPlates |-> plates, connectionSide |-> side,
   orientation |-> o, pxPerMeter |-> ppm]

\* short plate lists, under every orientation, side and scale
ShortCounts == {0, 5, 8, 20}

ShortCalls ==
  {Call(PlateList(n, layout, stagger, ppm, o, rev), side, o, ppm) :
     n \in ShortCounts, layout \in Layouts, stagger \in {0, Fix(200)},
     rev \in BOOLEAN, o \in Orientations, side \in ConnectionSides,
     ppm \in RouterScales}

\* lists of MaxBlocks complete blocks, with and without a rest of 3 plates
LongCounts == {8 * MaxBlocks, 8 * MaxBlocks + 3}

LongSettings ==
  {<<"Vertical", "bottom", 1000>>, <<"Vertical", "top", 500>>,
   <<"Horizontal", "left", 1000>>, <<"Horizontal", "right", 500>>}

\* aligned plates in layout order, or staggered plates in reverse order
LongShapes == {<<0, FALSE>>, <<Fix(200), TRUE>>}

LongCalls ==
  {Call(PlateList(n, layout, sh[1], c[3], c[1], sh[2]), c[2], c[1], c[3]) :
     n \in LongCounts, layout \in Layouts, sh \in LongShapes, c \in LongSettings}

\* calls without a plate list (null or undefined)
MissingCalls ==
  {[given |-> FALSE, heatPlates |-> <<>>,
    connectionSide |-> side, orientation |-> o, pxPerMeter |-> ppm] :
      o \in Orientations, side \in ConnectionSides, ppm \in RouterScales}

\* complete blocks in a plate list long enough for more circuits than the
\* palette has colours
PaletteBlocks == 215

\* such a list of System 4 plates
PaletteCalls ==
  {Call(PlateList(8 * PaletteBlocks, [perGap |-> 4, stride |-> 95333], 0, 1000, "Vertical",
                  FALSE),
        "bottom", "Vertical", 1000)}

RouterCalls == ShortCalls \cup LongCalls \cup MissingCalls

NoCall == [given |-> FALSE, heatPlates |-> <<>>, connectionSide |-> "bottom",
           orientation |-> "Vertical", pxPerMeter |-> 1000]

-----------------------------------------------------------------------------
(* GridCalculator.ts: quantizeLength *)

LENGTH_STEP_MM == 100

\* mutant: the length as it is
quantizeNone(mm) == mm

\* mutant: rounds to the nearest step
quantizeNearest(mm) ==
  ((mm + Fix(LENGTH_STEP_MM) \div 2) \div Fix(LENGTH_STEP_MM)) * Fix(LENGTH_STEP_MM)

\* private quantizeLength(lengthMM): Math.floor(lengthMM / step) * step
quantizeLength(mm) == (mm \div Fix(LENGTH_STEP_MM)) * Fix(LENGTH_STEP_MM)

\* most whole steps in a length given to quantizeLength
MaxQuantSteps == 30

\* lengths at, just above, midway and just below a multiple of the step
QuantLengths ==
  {k * Fix(LENGTH_STEP_MM) + d : k \in 0..MaxQuantSteps, d \in {0, 1, 49999, 50000, 99999}}

-----------------------------------------------------------------------------
(* calculateCircuits as a state machine: the call, one step per block of the  *)
(* forEach loop, and the return.                                              *)

-----------------------------------------------------------------------------
(* GridCalculator.ts: profiles and plates of a room *)

CD_PROFILE_WIDTH_MM == 60
CD_PROFILE_SPACING_MM == 400
WALL_BUFFER_MM == 250
GRID_MARGIN_MM == 100
MIN_PROFILE_LENGTH_MM == 1000

RECURSIVE Gcd(_, _)
Gcd(a, b) == IF b = 0 THEN a ELSE Gcd(b, a % b)

\* floor(a * b / c) for c # 0, with b / c reduced first
MulDivR(a, b, c) ==
  LET g == Gcd(Abs(b), Abs(c))
      bb == IF c < 0 THEN -(b \div g) ELSE b \div g
      cc == Abs(c) \div g
  IN MulDiv(a, bb, cc)

\* private mmToPx(mm): (mm / 1000) * this.pxPerMeter
GridCalculator_mmToPx(mm, pxPerMeter) == MulDiv(mm, pxPerMeter, 1000)

\* (px / this.pxPerMeter) * 1000, as written at each use
GridCalculator_pxToMm(px, pxPerMeter) == MulDivR(px, 1000, pxPerMeter)

\* private getBoundingBox(points)
getBoundingBox(points) ==
  LET xs == {points[k].x : k \in 1..Len(points)}
      ys == {points[k].y : k \in 1..Len(points)}
  IN [minX |-> CHOOSE v \in xs : \A w \in xs : v <= w,
      maxX |-> CHOOSE v \in xs : \A w \in xs : v >= w,
      minY |-> CHOOSE v \in ys : \A w \in ys : v <= w,
      maxY |-> CHOOSE v \in ys : \A w \in ys : v >= w]

\* lineIntersection of the vertical line through x (the ray from -1e9 to 1e9)
\* with the edge p3-p4: <<y>>, or <<>> for null.  denom is 2e9 * (p3.x - p4.x):
\* below the epsilon only for a vertical edge; t is within [0, 1] for every
\* edge of a room; u = (x - p3.x) / (p4.x - p3.x).
lineIntersection(x, p3, p4) ==
  IF p3.x = p4.x THEN <<>>
  ELSE IF Min(p3.x, p4.x) <= x /\ x <= Max(p3.x, p4.x)
       THEN <<p3.y + MulDivR(x - p3.x, p4.y - p3.y, p4.x - p3.x)>>
       ELSE <<>>

RECURSIVE InsertAscending(_, _)
InsertAscending(sorted, v) ==
  IF sorted = <<>> THEN <<v>>
  ELSE IF v < Head(sorted) THEN <<v>> \o sorted
       ELSE <<Head(sorted)>> \o InsertAscending(Tail(sorted), v)

\* intersections.sort((a, b) => a - b)
RECURSIVE SortAscending(_)
SortAscending(s) ==
  IF s = <<>> THEN <<>> ELSE InsertAscending(SortAscending(Tail(s)), Head(s))

\* the loop over the polygon edges i, (i + 1) % length, from edge k on
RECURSIVE EdgeHits(_, _, _)
EdgeHits(x, polygon, k) ==
  IF k > Len(polygon) THEN <<>>
  ELSE lineIntersection(x, polygon[k], polygon[(k % Len(polygon)) + 1])
         \o EdgeHits(x, polygon, k + 1)

\* private castVerticalRay(x, polygon): sorted intersection Y coordinates
castVerticalRay(x, polygon) == SortAscending(EdgeHits(x, polygon, 1))

Transposed(polygon) == [k \in 1..Len(polygon) |-> [x |-> polygon[k].y, y |-> polygon[k].x]]

\* private castHorizontalRay(y, polygon): sorted intersection X coordinates;
\* the same computation with the axes exchanged
castHorizontalRay(y, polygon) == SortAscending(EdgeHits(y, Transposed(polygon), 1))

castRay(orientation, c, polygon) ==
  IF orientation = "Vertical" THEN castVerticalRay(c, polygon)
  ELSE castHorizontalRay(c, polygon)

\* the values generateCDProfiles computes before its loop (lines 178-211 for
\* Vertical, 178-183 and 311-331 for Horizontal)
\* mutant: the count without the profile at the start of the grid
ProfileCountOfSpacings(usableWidthMM) == usableWidthMM \div Fix(CD_PROFILE_SPACING_MM)

\* profileCount: Math.floor(usableWidthMM / CD_PROFILE_SPACING_MM) + 1
ProfileCount(usableWidthMM) == (usableWidthMM \div Fix(CD_PROFILE_SPACING_MM)) + 1

GridFrame(points, orientation, pxPerMeter) ==
  LET bbox == getBoundingBox(points)
      origin == IF orientation = "Vertical" THEN bbox.minX ELSE bbox.minY
      roomWidth == IF orientation = "Vertical" THEN bbox.maxX - bbox.minX
                   ELSE bbox.maxY - bbox.minY
      roomWidthMM == GridCalculator_pxToMm(roomWidth, pxPerMeter)
      usableWidthMM == roomWidthMM - 2 * Fix(GRID_MARGIN_MM)
      profileCount == ProfileCount(usableWidthMM)
      totalGridSpanMM == (profileCount - 1) * Fix(CD_PROFILE_SPACING_MM)
      totalGridSpanPx == GridCalculator_mmToPx(totalGridSpanMM, pxPerMeter)
      remainderPx == roomWidth - totalGridSpanPx
  IN [origin |-> origin,
      profileCount |-> profileCount,
      startOffsetPx |-> remainderPx \div 2,
      profileWidth |-> GridCalculator_mmToPx(Fix(CD_PROFILE_WIDTH_MM), pxPerMeter),
      spacing |-> GridCalculator_mmToPx(Fix(CD_PROFILE_SPACING_MM), pxPerMeter),
      bufferPx |-> GridCalculator_mmToPx(Fix(WALL_BUFFER_MM), pxPerMeter)]

\* mutant: a skip returns nothing instead of going on
ReturnEmpty(list) == <<>>

\* continue (and the filter that pushes nothing): the list stays as it is and
\* the loop goes on with the next index
Continue(list) == list

\* mutant: the looser of the two near intersections
LoosestNearLimit(rayA, rayB) == Min(rayA[1], rayB[1])

\* topLimit / leftLimit: Math.max(intersectionsLeft[0], intersectionsRight[0])
NearLimit(rayA, rayB) == Max(rayA[1], rayB[1])

\* mutant: the looser of the two far intersections
LoosestFarLimit(rayA, rayB) == Max(rayA[2], rayB[2])

\* bottomLimit / rightLimit: Math.min(intersectionsLeft[1], intersectionsRight[1])
FarLimit(rayA, rayB) == Min(rayA[2], rayB[2])

\* the loop body from the two limits on: the buffer, the quantized length and
\* the profile pushed, for a profile centred at current whose rays are rayA, rayB
ProfileBetween(f, orientation, pxPerMeter, current, rayA, rayB, profiles) ==
  IF Len(rayA) < 2 \/ Len(rayB) < 2 THEN Continue(profiles)
  ELSE
    LET nearLimit == NearLimit(rayA, rayB)
        farLimit == FarLimit(rayA, rayB)
        rawLengthPx == farLimit - nearLimit
        maxPossibleLengthMM ==
          GridCalculator_pxToMm(rawLengthPx - 2 * f.bufferPx, pxPerMeter)
        steppedLengthMM == quantizeLength(maxPossibleLengthMM)
        steppedLengthPx == GridCalculator_mmToPx(steppedLengthMM, pxPerMeter)
        finalYEnd == farLimit - f.bufferPx
        finalXStart == nearLimit + f.bufferPx
    IN IF rawLengthPx < 0 THEN Continue(profiles)
       ELSE IF maxPossibleLengthMM < Fix(100) THEN Continue(profiles)
       ELSE IF steppedLengthMM >= Fix(MIN_PROFILE_LENGTH_MM)
            THEN IF orientation = "Vertical"
                 THEN Append(profiles,
                             [id |-> <<"profile-v", Len(profiles)>>,
                              x1 |-> current - f.profileWidth \div 2,
                              y1 |-> finalYEnd - steppedLengthPx,
                              x2 |-> current - f.profileWidth \div 2,
                              y2 |-> finalYEnd,
                              width |-> f.profileWidth, orientation |-> "Vertical"])
                 ELSE Append(profiles,
                             [id |-> <<"profile-h", Len(profiles)>>,
                              x1 |-> finalXStart,
                              y1 |-> current - f.profileWidth \div 2,
                              x2 |-> finalXStart + steppedLengthPx,
                              y2 |-> current - f.profileWidth \div 2,
                              width |-> f.profileWidth, orientation |-> "Horizontal"])
            ELSE Continue(profiles)

\* the loop body up to the two rays: the centre of profile i (0-based) and the
\* rays along its two edges, for the frame f computed before the loop
ProfileAt(f, points, orientation, pxPerMeter, i, profiles) ==
  LET current == f.origin + f.startOffsetPx + i * f.spacing
      halfWidth == f.profileWidth \div 2
  IN ProfileBetween(f, orientation, pxPerMeter, current,
                    castRay(orientation, current - halfWidth, points),
                    castRay(orientation, current + halfWidth, points), profiles)

\* one pass of the loop body for index i (0-based): the profile list after it
ProfileLoopBody(points, orientation, pxPerMeter, i, profiles) ==
  ProfileAt(GridFrame(points, orientation, pxPerMeter), points, orientation, pxPerMeter,
            i, profiles)

RECURSIVE ProfileLoopFrom(_, _, _, _, _)
ProfileLoopFrom(points, orientation, pxPerMeter, i, profiles) ==
  IF i >= GridFrame(points, orientation, pxPerMeter).profileCount THEN profiles
  ELSE LET Rest(pushed) == ProfileLoopFrom(points, orientation, pxPerMeter, i + 1, pushed)
           \* the body's result is computed once, then the loop goes on with it
           after == {Rest(pushed) :
                       pushed \in {ProfileLoopBody(points, orientation, pxPerMeter, i, profiles)}}
       IN CHOOSE result \in after : TRUE

\* generateCDProfiles(room)
generateCDProfiles(points, orientation, pxPerMeter) ==
  IF GridFrame(points, orientation, pxPerMeter).profileCount < 1 THEN <<>>
  ELSE ProfileLoopFrom(points, orientation, pxPerMeter, 0, <<>>)

BROWN_PLATE_WIDTH_MM == 50
BLUE_PROFILE_WIDTH_MM == 60
\* 45.333333 mm and 7.2 mm, in 1/1000 mm
SYSTEM_4_GAP_MICRONS == 45333
SYSTEM_6_GAP_MICRONS == 7200
TOTAL_SPAN_MM == 336
VISUAL_OFFSET_MM == 30

\* mutant: the earlier of the two starts
EarlierStart(P_i, P_i_next, orientation) ==
  IF orientation = "Vertical" THEN Min(P_i.y1, P_i_next.y1) ELSE Min(P_i.x1, P_i_next.x1)

\* safeStart = Math.max(P_i.y1, P_i_next.y1), or of the x1 for Horizontal
safeStart(P_i, P_i_next, orientation) ==
  IF orientation = "Vertical" THEN Max(P_i.y1, P_i_next.y1) ELSE Max(P_i.x1, P_i_next.x1)

\* safeEnd = Math.min(P_i.y2, P_i_next.y2), or of the x2 for Horizontal
safeEnd(P_i, P_i_next, orientation) ==
  IF orientation = "Vertical" THEN Min(P_i.y2, P_i_next.y2) ELSE Min(P_i.x2, P_i_next.x2)

\* mutant: four plates whatever the system
FourPlates(systemType) == 4

\* systemType === 'System 4' ? 4 : 6
plateCount(systemType) == IF systemType = "System 4" THEN 4 ELSE 6

\* mutant: the gap of System 6 in both recipes
StrideOfSystem6(systemType, pxPerMeter) ==
  GridCalculator_mmToPx(Fix(BROWN_PLATE_WIDTH_MM), pxPerMeter)
    + GridCalculator_mmToPx(SYSTEM_6_GAP_MICRONS, pxPerMeter)

\* stridePx = plateWidthPx + gapBetweenPlatesPx
stridePx(systemType, pxPerMeter) ==
  GridCalculator_mmToPx(Fix(BROWN_PLATE_WIDTH_MM), pxPerMeter)
    + GridCalculator_mmToPx(IF systemType = "System 4" THEN SYSTEM_4_GAP_MICRONS
                            ELSE SYSTEM_6_GAP_MICRONS, pxPerMeter)

\* the inner loop j = 0 .. plateCount - 1, from j on
RECURSIVE PushPlates(_, _, _, _, _, _, _, _, _)
PushPlates(plates, j, count, blockStart, stride, plateWidthPx, start, end, orientation) ==
  IF j >= count THEN plates
  ELSE LET plateCenter == blockStart + j * stride + plateWidthPx \div 2
           plate == IF orientation = "Vertical"
                    THEN [id |-> <<"plate-v", Len(plates)>>,
                          x1 |-> plateCenter, y1 |-> start, x2 |-> plateCenter, y2 |-> end,
                          width |-> plateWidthPx, orientation |-> "Vertical"]
                    ELSE [id |-> <<"plate-h", Len(plates)>>,
                          x1 |-> start, y1 |-> plateCenter, x2 |-> end, y2 |-> plateCenter,
                          width |-> plateWidthPx, orientation |-> "Horizontal"]
           Rest(pushed) == PushPlates(pushed, j + 1, count, blockStart, stride, plateWidthPx,
                                      start, end, orientation)
           after == {Rest(pushed) : pushed \in {Append(plates, plate)}}
       IN CHOOSE result \in after : TRUE

\* mutant: a gap of exactly the recipe's span is skipped too
GapAtMostSpan(gapSizeMM) == gapSizeMM <= Fix(TOTAL_SPAN_MM)

\* if (gapSizeMM < TOTAL_SPAN_MM): the pair is skipped
GapBelowSpan(gapSizeMM) == gapSizeMM < Fix(TOTAL_SPAN_MM)

\* one pass of the loop over adjacent profile pairs, for index i (0-based): the
\* plate list after it
PairLoopBody(profiles, systemType, orientation, pxPerMeter, i, plates) ==
  LET P_i == profiles[i + 1]
      P_i_next == profiles[i + 2]
      plateWidthPx == GridCalculator_mmToPx(Fix(BROWN_PLATE_WIDTH_MM), pxPerMeter)
      blueProfileWidthPx == GridCalculator_mmToPx(Fix(BLUE_PROFILE_WIDTH_MM), pxPerMeter)
      totalSpanPx == GridCalculator_mmToPx(Fix(TOTAL_SPAN_MM), pxPerMeter)
      visualOffsetPx == GridCalculator_mmToPx(Fix(VISUAL_OFFSET_MM), pxPerMeter)
      start == safeStart(P_i, P_i_next, orientation)
      end == safeEnd(P_i, P_i_next, orientation)
      safeLength == end - start
      gapStart == (IF orientation = "Vertical" THEN P_i.x1 ELSE P_i.y1) + blueProfileWidthPx
      gapEnd == IF orientation = "Vertical" THEN P_i_next.x1 ELSE P_i_next.y1
      gapSize == gapEnd - gapStart
      gapSizeMM == GridCalculator_pxToMm(gapSize, pxPerMeter)
      gapCenter == (gapStart + gapEnd) \div 2
      originalBlockStart == gapCenter - totalSpanPx \div 2
      blockStart == originalBlockStart - visualOffsetPx
  IN IF safeLength <= 0 THEN Continue(plates)
     ELSE IF GapBelowSpan(gapSizeMM) THEN Continue(plates)
     ELSE PushPlates(plates, 0, plateCount(systemType), blockStart,
                     stridePx(systemType, pxPerMeter), plateWidthPx, start, end, orientation)

RECURSIVE PairLoopFrom(_, _, _, _, _, _)
PairLoopFrom(profiles, systemType, orientation, pxPerMeter, i, plates) ==
  IF i >= Len(profiles) - 1 THEN plates
  ELSE LET Rest(pushed) == PairLoopFrom(profiles, systemType, orientation, pxPerMeter,
                                        i + 1, pushed)
           after == {Rest(pushed) :
                       pushed \in {PairLoopBody(profiles, systemType, orientation, pxPerMeter,
                                                 i, plates)}}
       IN CHOOSE result \in after : TRUE

\* private generateHeatPlates(profiles, systemType, orientation)
generateHeatPlates(profiles, systemType, orientation, pxPerMeter) ==
  IF Len(profiles) < 2 THEN <<>>
  ELSE PairLoopFrom(profiles, systemType, orientation, pxPerMeter, 0, <<>>)

-----------------------------------------------------------------------------
(* Rooms given to generateRoomGrid *)

SystemTypes == {"System 4", "System 6"}
GridScales == {500, 1000}

Pt(xMm, yMm) == [x |-> xMm, y |-> yMm]

\* room outlines, in whole millimetres
RoomOutlines ==
  { \* rectangles: regular, too short for a 1000 mm profile, too narrow for a grid
    <<Pt(0, 0), Pt(2400, 0), Pt(2400, 3000), Pt(0, 3000)>>,
    <<Pt(0, 0), Pt(1000, 0), Pt(1000, 1400), Pt(0, 1400)>>,
    <<Pt(0, 0), Pt(150, 0), Pt(150, 3000), Pt(0, 3000)>>,
    \* a slanted wall on the near side, on the far side
    <<Pt(0, 0), Pt(2400, 600), Pt(2400, 3045), Pt(0, 3045)>>,
    <<Pt(0, 0), Pt(3045, 0), Pt(3045, 2400), Pt(600, 2400)>>,
    <<Pt(0, 0), Pt(2400, 0), Pt(2400, 3045), Pt(0, 2445)>>,
    <<Pt(0, 0), Pt(2445, 0), Pt(3045, 2400), Pt(0, 2400)>>,
    \* an L with its inner corner between the two rays of a profile
    <<Pt(0, 0), Pt(2400, 0), Pt(2400, 3000), Pt(1000, 3000), Pt(1000, 1800), Pt(0, 1800)>>,
    <<Pt(0, 0), Pt(3000, 0), Pt(3000, 1000), Pt(1800, 1000), Pt(1800, 2400), Pt(0, 2400)>>,
    \* a triangle
    <<Pt(0, 0), Pt(2400, 0), Pt(1200, 3000)>>,
    \* a C: the rays on one side cross four walls
    <<Pt(0, 0), Pt(2400, 0), Pt(2400, 1500), Pt(800, 1500), Pt(800, 2500), Pt(2400, 2500),
      Pt(2400, 4000), Pt(0, 4000)>>,
    \* a corner exactly on a ray
    <<Pt(0, 500), Pt(970, 0), Pt(2400, 500), Pt(2400, 3000), Pt(0, 3000)>>,
    \* a square with 2400 mm left between the two grid margins
    <<Pt(0, 0), Pt(2600, 0), Pt(2600, 2600), Pt(0, 2600)>>,
    \* an S: two halves joined by a neck too low for a profile, the profiles of
    \* the one half nowhere level with those of the other
    <<Pt(0, 0), Pt(1000, 0), Pt(1000, 1700), Pt(2600, 1700), Pt(2600, 4000), Pt(1600, 4000),
      Pt(1600, 2000), Pt(0, 2000)>> }

\* a point picked on the drawing: millimetres on the plan at the given scale
PlanPoint(p, pxPerMeter) ==
  [x |-> GridCalculator_mmToPx(Fix(p.x), pxPerMeter),
   y |-> GridCalculator_mmToPx(Fix(p.y), pxPerMeter)]

Polygon(outline, pxPerMeter) ==
  [k \in 1..Len(outline) |-> PlanPoint(outline[k], pxPerMeter)]

GridRooms ==
  {[points |-> Polygon(outline, scale), orientation |-> o, systemType |-> st] :
     outline \in RoomOutlines, scale \in GridScales, o \in Orientations, st \in SystemTypes}

\* a CDProfile as generateCDProfiles writes it: its edge at acrossMm, from
\* startMm to endMm along its length (whole millimetres)
ProfileOf(k, acrossMm, startMm, endMm, o, ppm) ==
  LET across == GridCalculator_mmToPx(Fix(acrossMm), ppm)
      start == GridCalculator_mmToPx(Fix(startMm), ppm)
      end == GridCalculator_mmToPx(Fix(endMm), ppm)
      width == GridCalculator_mmToPx(Fix(CD_PROFILE_WIDTH_MM), ppm)
  IN IF o = "Vertical"
     THEN [id |-> <<"profile-v", k>>, x1 |-> across, y1 |-> start, x2 |-> across, y2 |-> end,
           width |-> width, orientation |-> "Vertical"]
     ELSE [id |-> <<"profile-h", k>>, x1 |-> start, y1 |-> across, x2 |-> end, y2 |-> across,
           width |-> width, orientation |-> "Horizontal"]

\* arguments of generateHeatPlates: three profiles with gaps g1 and g2 (mm)
\* between their facing edges, the middle one shifted along its length (by
\* 2000 mm it begins where the other two end); or no profile, or one
PlateCalls ==
  {[profiles |-> <<ProfileOf(0, 100, 300, 2300, o, ppm),
                   ProfileOf(1, 160 + g[1], 300 + shift, 2300 + shift, o, ppm),
                   ProfileOf(2, 220 + g[1] + g[2], 300, 2300, o, ppm)>>,
    systemType |-> st, orientation |-> o, pxPerMeter |-> ppm] :
     g \in {335, 336, 337, 340, 740} \X {335, 336, 340}, shift \in {0, 200, 2000},
     o \in Orientations, st \in SystemTypes, ppm \in GridScales}
  \cup
  {[profiles |-> SubSeq(<<ProfileOf(0, 100, 300, 2300, o, ppm)>>, 1, n),
    systemType |-> st, orientation |-> o, pxPerMeter |-> ppm] :
     n \in {0, 1}, o \in Orientations, st \in SystemTypes, ppm \in GridScales}

NoRoom == [points |-> <<>>, orientation |-> "Vertical", systemType |-> "System 4"]

\* a call of createDXFStyleTurn: p2 lies gap (1/1000 mm) from p1 in direction d / 5
TurnCall(gap, d, depth, side, o, ppm) ==
  LET p1 == [x |-> mmToPx(Fix(1000), ppm), y |-> mmToPx(Fix(1300), ppm)]
  IN [p1 |-> p1,
      p2 |-> [x |-> p1.x + mmToPx((gap * d[1]) \div 5, ppm),
              y |-> p1.y + mmToPx((gap * d[2]) \div 5, ppm)],
      depth |-> depth, side |-> side, orientation |-> o, pxPerMeter |-> ppm]

\* endpoint pairs 40 mm apart, one or several strides of the two systems apart
\* (57.2 and 95.333 mm), and as far apart as plates 1 and 8 of a System 4 block
\* (686 mm); along x, along y, backwards and oblique (3:4:5); with the four
\* depths of the turn side and the depth of the connection side
TurnCalls ==
  {TurnCall(gap, d, depth, side, "Vertical", ppm) :
     gap \in {40000, 57200, 95333, 100000, 200000, 286000, 400000, 686000},
     d \in {<<5, 0>>, <<0, 5>>, <<-5, 0>>, <<3, 4>>},
     depth \in {TurnDepthMm(k) : k \in 0..3} \cup {Fix(SMALL_TURN_DEPTH_MM)},
     side \in ConnectionSides, ppm \in RouterScales}

\* the coordinates of the rays cast at a polygon: through every corner of the
\* polygon and 30 mm beside it
RayCoordinates(polygon, scale) ==
  {polygon[k].x + d : k \in 1..Len(polygon), d \in {0, GridCalculator_mmToPx(Fix(30), scale)}}

NoRay == [ray |-> "none", c |-> 0, polygon |-> <<>>]

NoTurn == TurnCall(0, <<5, 0>>, 0, "top", "Vertical", 1000)

Init ==
  /\ rpc = "idle"
  /\ args = NoCall
  /\ blocks = <<>>
  /\ blockIndex = 0
  /\ currentPathParts = <<>>
  /\ currentLengthMm = 0
  /\ circuits = <<>>
  /\ outcome = "none"
  /\ qpc = "idle"
  /\ lengthMM = 0
  /\ quantized = 0
  /\ requantized = 0
  /\ gpc = "idle"
  /\ gridRoom = NoRoom
  /\ gridPxPerMeter = 0
  /\ profileIndex = 0
  /\ cdProfiles = <<>>
  /\ pairIndex = 0
  /\ heatPlates = <<>>
  /\ pdf = [pxPerMeter |-> 0]
  /\ calibration = [isCalibrating |-> FALSE, line |-> <<>>, isDrawingLine |-> FALSE]
  /\ rooms = <<>>
  /\ roomDrawing = [isActive |-> FALSE, currentPoints |-> <<>>, pendingRoom |-> <<>>]
  /\ settings = [cdProfileSpacing |-> 400, wallBuffer |-> 250]
  /\ notice = "none"
  /\ tpc = "idle"
  /\ turnArgs = NoTurn
  /\ turnResult = [pathData |-> [shape |-> "none"], lengthMm |-> 0]
  /\ rayArgs = NoRay
  /\ rayResult = <<>>

\* const blocks = chunkPlates(sortedPlates, 8).filter(...)
BlocksOf(plates, orientation) ==
  FilterFull(chunkPlates(sortPlates(plates, orientation), 8))

\* PipeRouter.ts:43-65: the early returns, the sort and the chunking
CalculateCircuits ==
  /\ rpc = "idle"
  /\ \E call \in RouterCalls :
       /\ args' = call
       /\ IF ~call.given \/ Len(call.heatPlates) = 0
          THEN /\ blocks' = <<>>
               /\ rpc' = "done"
               /\ outcome' = "returned"
          ELSE LET bs == BlocksOf(call.heatPlates, call.orientation)
               IN /\ blocks' = bs
                  /\ IF Len(bs) = 0
                     THEN rpc' = "done" /\ outcome' = "returned"
                     ELSE rpc' = "loop" /\ outcome' = "none"
  /\ currentPathParts' = <<>>
  /\ currentLengthMm' = 0
  /\ circuits' = <<>>
  /\ blockIndex' = 0
  /\ UNCHANGED <<quantVars, gridVars, storeVars, turnVars, rayVars>>

\* PipeRouter.ts:67-89: the body of blocks.forEach for the block at blockIndex
ForEachBlock ==
  /\ rpc = "loop"
  /\ blockIndex < Len(blocks)
  /\ LET blockPath == generatePatternPaths(blocks[blockIndex + 1], args.connectionSide,
                                           args.orientation, args.pxPerMeter, blockIndex)
         acc == BlockStep([parts |-> currentPathParts, len |-> currentLengthMm,
                           circuits |-> circuits], blockPath)
     IN IF blockPath.threw
        THEN /\ rpc' = "done"
             /\ outcome' = "threw"
             /\ UNCHANGED <<blockIndex, currentPathParts, currentLengthMm, circuits>>
        ELSE /\ currentPathParts' = acc.parts
             /\ currentLengthMm' = acc.len
             /\ circuits' = acc.circuits
             /\ blockIndex' = blockIndex + 1
             /\ UNCHANGED <<rpc, outcome>>
  /\ UNCHANGED <<args, blocks>>
  /\ UNCHANGED <<quantVars, gridVars, storeVars, turnVars, rayVars>>

\* PipeRouter.ts:91-101: the last circuit is pushed and the list returned
ReturnCircuits ==
  /\ rpc = "loop"
  /\ blockIndex = Len(blocks)
  /\ circuits' = FinishCircuits([parts |-> currentPathParts, len |-> currentLengthMm,
                                 circuits |-> circuits])
  /\ rpc' = "done"
  /\ outcome' = "returned"
  /\ UNCHANGED <<args, blocks, blockIndex, currentPathParts, currentLengthMm>>
  /\ UNCHANGED <<quantVars, gridVars, storeVars, turnVars, rayVars>>

RouterNext ==
  \/ CalculateCircuits
  \/ ForEachBlock
  \/ ReturnCircuits

SpecRouter == Init /\ [][RouterNext]_vars

-----------------------------------------------------------------------------
(* Properties of calculateCircuits *)

Returned == rpc = "done" /\ outcome = "returned"

\* the plates of the blocks, in block order
RoutedPlates == [i \in 1..(8 * Len(blocks)) |-> blocks[((i - 1) \div 8) + 1][((i - 1) % 8) + 1]]

\* the end points of the path commands of circuit c, tagged with c
CircuitEnds ==
  UNION {UNION {{<<c, circuits[c].pathData[b][k].p1>>, <<c, circuits[c].pathData[b][k].p2>>} :
                  k \in 1..Len(circuits[c].pathData[b])} :
           <<c, b>> \in {cb \in (1..Len(circuits)) \X (1..MaxBlocks + 1) :
                           cb[2] <= Len(circuits[cb[1]].pathData)}}

\* the circuits whose path touches both ends of the plate
CircuitsOf(plate, ends) ==
  {c \in 1..Len(circuits) :
     /\ <<c, [x |-> plate.x1, y |-> plate.y1]>> \in ends
     /\ <<c, [x |-> plate.x2, y |-> plate.y2]>> \in ends}

\* the length of block b (1-based) of the call, computed from its plates
BlockLength(b) ==
  generatePatternPaths(blocks[b], args.connectionSide, args.orientation,
                       args.pxPerMeter, b - 1).lengthMm

\* C1: every circuit calculateCircuits has pushed, and so every circuit it
\* returns, has a length of at most MAX_CIRCUIT_LENGTH_MM (100,000 mm).
C1_CircuitLengthBounded ==
  \A c \in 1..Len(circuits) : circuits[c].length <= Fix(MAX_CIRCUIT_LENGTH_MM)

\* a call has returned more than one circuit: the limit has closed a circuit
C1_Witness == Returned /\ Len(circuits) >= 2

\* C2: the blocks hold the plates in ascending order of the layout axis, 8 to a
\* block; the plates left out are the last (n mod 8) of that order; every plate
\* of a block is in exactly one returned circuit, the plates left out are in
\* none, and every returned circuit holds at least one block.
C2_BlocksPartitionPlates ==
  (Returned /\ args.given) =>
    LET plates == args.heatPlates
        n == Len(plates)
        routed == RoutedPlates
        routedIds == {routed[i].id : i \in 1..Len(routed)}
        rest == {i \in 1..n : plates[i].id \notin routedIds}
        ends == CircuitEnds
    IN /\ \A b \in 1..Len(blocks) : Len(blocks[b]) = 8
       /\ Len(routed) = 8 * (n \div 8)
       /\ Cardinality(routedIds) = Len(routed)
       /\ \A i \in 1..Len(routed) : \E j \in 1..n : plates[j] = routed[i]
       /\ \A i \in 1..(Len(routed) - 1) :
            SortKey(routed[i], args.orientation) <= SortKey(routed[i + 1], args.orientation)
       /\ Cardinality(rest) = n % 8
       /\ \A i \in rest :
            /\ Len(routed) > 0 =>
                 SortKey(plates[i], args.orientation)
                   >= SortKey(routed[Len(routed)], args.orientation)
            /\ CircuitsOf(plates[i], ends) = {}
       /\ \A i \in 1..Len(routed) : Cardinality(CircuitsOf(routed[i], ends)) = 1
       /\ \A c \in 1..Len(circuits) : Len(circuits[c].pathData) >= 1

\* a reversed list with a rest of 3 plates has been routed into two circuits
C2_Witness ==
  /\ Returned /\ args.given
  /\ Len(args.heatPlates) = 8 * MaxBlocks + 3
  /\ args.heatPlates[1].id > args.heatPlates[2].id
  /\ Len(circuits) = 2

\* C3: in each step of the loop the block joins the current circuit when the
\* current length plus the block's length is at most the maximum; otherwise the
\* current circuit is pushed as it stands and the new current circuit is this
\* block alone, with this block's length.
C3_AppendOrStartNew ==
  [][(rpc = "loop" /\ blockIndex' = blockIndex + 1) =>
       LET blockPath == generatePatternPaths(blocks[blockIndex + 1], args.connectionSide,
                                             args.orientation, args.pxPerMeter, blockIndex)
       IN IF currentLengthMm + blockPath.lengthMm <= Fix(MAX_CIRCUIT_LENGTH_MM)
          THEN /\ currentPathParts' = Append(currentPathParts, blockPath.pathData)
               /\ currentLengthMm' = currentLengthMm + blockPath.lengthMm
               /\ circuits' = circuits
          ELSE /\ Len(circuits') = Len(circuits) + 1
               /\ circuits'[Len(circuits')].pathData = currentPathParts
               /\ circuits'[Len(circuits')].length = currentLengthMm
               /\ SubSeq(circuits', 1, Len(circuits)) = circuits
               /\ currentPathParts' = <<blockPath.pathData>>
               /\ currentLengthMm' = blockPath.lengthMm]_vars

\* the loop has closed a circuit and carries on with a fresh one
C3_Witness ==
  /\ rpc = "loop"
  /\ Len(circuits) = 1
  /\ Len(currentPathParts) = 1
  /\ currentLengthMm = BlockLength(blockIndex)

C6_NoFullBlockNoCircuits ==
  (rpc # "idle" /\ (~args.given \/ Len(args.heatPlates) < 8)) =>
    (Returned /\ circuits = <<>>)

\* a call with 5 plates has returned
C6_Witness == Returned /\ args.given /\ Len(args.heatPlates) = 5 /\ circuits = <<>>

\* the path of every block passed so far, in the order of the blocks: the
\* blocks of the circuits pushed, then those of the circuit being filled
BlockPaths ==
  LET RECURSIVE Pushed(_)
      Pushed(c) == IF c > Len(circuits) THEN <<>> ELSE circuits[c].pathData \o Pushed(c + 1)
  IN Pushed(1) \o (IF rpc = "loop" THEN currentPathParts ELSE <<>>)

\* the two ends of the plates of block j (1-based)
BlockEnds(j) ==
  [k \in 1..8 |-> getPlateEnds(blocks[j][k], args.orientation, args.connectionSide)]

\* part is a turn from point a to point b whose turn point lies depthMm from
\* their midpoint towards side
IsTurn(part, a, b, depthMm, side) ==
  /\ part.shape = "turn"
  /\ part.p1 = a
  /\ part.p2 = b
  /\ part.turn = [x |-> (a.x + b.x) \div 2
                          + getSideVector(side).x * mmToPx(depthMm, args.pxPerMeter),
                  y |-> (a.y + b.y) \div 2
                          + getSideVector(side).y * mmToPx(depthMm, args.pxPerMeter)]

\* C19: on the turn side of every block the first four parts of the path
\* connect the turn ends of plates (1,8), (2,7), (3,6), (4,5) in that order, and
\* the turn of pair k (k = 0 for the first) is MAX_TURN_DEPTH_MM x (4 - k) / 4
\* deep: 250, 187.5, 125 and 62.5 mm.
C19_TurnSideNest ==
  \A j \in 1..Len(BlockPaths) :
    \A k \in 0..3 :
      /\ IsTurn(BlockPaths[j][k + 1], BlockEnds(j)[k + 1].turnEnd, BlockEnds(j)[8 - k].turnEnd,
                (Fix(MAX_TURN_DEPTH_MM) * (4 - k)) \div 4, getTurnSide(args.connectionSide))
      /\ (Fix(MAX_TURN_DEPTH_MM) * (4 - k)) \div 4 = <<250000, 187500, 125000, 62500>>[k + 1]

\* a call with more than one block has returned, on a side other than the default
C19_Witness ==
  /\ Returned
  /\ args.connectionSide = "left"
  /\ Len(BlockPaths) >= 2
  /\ BlockPaths[2][4].shape = "turn"
  /\ BlockPaths[2][4].turn.x = (BlockPaths[2][4].p1.x + BlockPaths[2][4].p2.x) \div 2
                                 + mmToPx(62500, args.pxPerMeter)

\* part is the stub of plate end a: a straight line of STUB_LENGTH_MM from a
\* along the connection direction
IsStub(part, a) ==
  part = [shape |-> "line", p1 |-> a,
          p2 |-> [x |-> a.x + getSideVector(args.connectionSide).x
                                * mmToPx(Fix(STUB_LENGTH_MM), args.pxPerMeter),
                  y |-> a.y + getSideVector(args.connectionSide).y
                                * mmToPx(Fix(STUB_LENGTH_MM), args.pxPerMeter)]]

\* part is a loop between the connection ends of plates a and b (1-based) of
\* block j, SMALL_TURN_DEPTH_MM deep
IsLoop(part, j, a, b) ==
  IsTurn(part, BlockEnds(j)[a].connectionEnd, BlockEnds(j)[b].connectionEnd,
         Fix(SMALL_TURN_DEPTH_MM), args.connectionSide)

\* the length createDXFStyleTurn reports for the turns among the parts from n on
RECURSIVE TurnLengthsFrom(_, _)
TurnLengthsFrom(path, n) ==
  IF n > Len(path) THEN 0
  ELSE (IF path[n].shape = "turn"
        THEN pxToMm(TurnLengthPx(path[n].radius), args.pxPerMeter) ELSE 0)
       + TurnLengthsFrom(path, n + 1)

\* C20: on the connection side only the first block of a call has the start
\* exception: after its four turns come the stubs of plates 1 and 2, each of
\* STUB_LENGTH_MM along the connection direction and each adding exactly that
\* length to the block's length, then the loops (3,4), (5,8) and (6,7); every
\* later block has the loops (1,4), (2,3), (5,8), (6,7); all loops are
\* SMALL_TURN_DEPTH_MM deep.
C20_ConnectionSidePattern ==
  /\ \A j \in 1..Len(BlockPaths) :
       IF j = 1
       THEN /\ Len(BlockPaths[j]) = 9
            /\ IsStub(BlockPaths[j][5], BlockEnds(j)[1].connectionEnd)
            /\ IsStub(BlockPaths[j][6], BlockEnds(j)[2].connectionEnd)
            /\ IsLoop(BlockPaths[j][7], j, 3, 4)
            /\ IsLoop(BlockPaths[j][8], j, 5, 8)
            /\ IsLoop(BlockPaths[j][9], j, 6, 7)
       ELSE /\ Len(BlockPaths[j]) = 8
            /\ IsLoop(BlockPaths[j][5], j, 1, 4)
            /\ IsLoop(BlockPaths[j][6], j, 2, 3)
            /\ IsLoop(BlockPaths[j][7], j, 5, 8)
            /\ IsLoop(BlockPaths[j][8], j, 6, 7)
  /\ (rpc = "loop" /\ blockIndex = 1) =>
       currentLengthMm = TurnLengthsFrom(BlockPaths[1], 1) + 2 * Fix(STUB_LENGTH_MM)

\* a second circuit was begun by a later block, which has no stubs
C20_Witness ==
  /\ Returned
  /\ Len(circuits) >= 2
  /\ Len(circuits[1].pathData[1]) = 9
  /\ Len(circuits[2].pathData[1]) = 8
  /\ circuits[2].pathData[1][5].shape = "turn"

------------------------------------------------------------------------------------------------------------------------------------------------\* the length of the j-th block path (1-based), read from the path: its turns
\* and loops, and its two stubs if it has them
PathLengthMm(j) ==
  TurnLengthsFrom(BlockPaths[j], 1)
    + Cardinality({k \in 1..Len(BlockPaths[j]) : BlockPaths[j][k].shape = "line"})
        * Fix(STUB_LENGTH_MM)

\* C27: the circuits returned by calculateCircuits hold the complete blocks in
\* their sorted order with no gaps: the j-th block path of the circuits, taken
\* in circuit order, is the path of the j-th block of 8 of the sorted plates,
\* and there are floor(n / 8) of them.  The split is greedy: the length of a
\* circuit closed before block b, plus the length of b, exceeds
\* MAX_CIRCUIT_LENGTH_MM.  The circuit lengths sum to the block lengths.
C27_GreedySplitInOrder ==
  (Returned /\ args.given) =>
    LET RECURSIVE BlocksUpTo(_)
        BlocksUpTo(c) == IF c = 0 THEN 0 ELSE Len(circuits[c].pathData) + BlocksUpTo(c - 1)
        RECURSIVE CircuitLengthsFrom(_)
        CircuitLengthsFrom(c) ==
          IF c > Len(circuits) THEN 0 ELSE circuits[c].length + CircuitLengthsFrom(c + 1)
        RECURSIVE PathLengthsFrom(_)
        PathLengthsFrom(j) ==
          IF j > Len(BlockPaths) THEN 0 ELSE PathLengthMm(j) + PathLengthsFrom(j + 1)
    IN /\ Len(BlockPaths) = Len(args.heatPlates) \div 8
       /\ \A j \in 1..Len(BlockPaths) :
            /\ BlockPaths[j][1].p1 = BlockEnds(j)[1].turnEnd
            /\ BlockPaths[j][1].p2 = BlockEnds(j)[8].turnEnd
            /\ j > 1 => SortKey(blocks[j - 1][8], args.orientation)
                          <= SortKey(blocks[j][1], args.orientation)
       /\ \A c \in 1..(Len(circuits) - 1) :
            circuits[c].length + PathLengthMm(BlocksUpTo(c) + 1) > Fix(MAX_CIRCUIT_LENGTH_MM)
       /\ CircuitLengthsFrom(1) = PathLengthsFrom(1)

\* a list with a rest of plates was split: the second circuit begins with the
\* block that did not fit
C27_Witness ==
  /\ Returned /\ args.given
  /\ Len(args.heatPlates) = 8 * MaxBlocks + 3
  /\ Len(circuits) = 2
  /\ Len(circuits[1].pathData) + Len(circuits[2].pathData) = MaxBlocks
  /\ circuits[1].length + PathLengthMm(Len(circuits[1].pathData) + 1)
       > Fix(MAX_CIRCUIT_LENGTH_MM)

-----
(* calculateCircuits on plate lists of many circuits *)

\* PipeRouter.ts:43-65 for a call with a long plate list
CalculateManyCircuits ==
  /\ rpc = "idle"
  /\ \E call \in PaletteCalls :
       /\ args' = call
       /\ IF ~call.given \/ Len(call.heatPlates) = 0
          THEN /\ blocks' = <<>>
               /\ rpc' = "done"
               /\ outcome' = "returned"
          ELSE LET bs == BlocksOf(call.heatPlates, call.orientation)
               IN /\ blocks' = bs
                  /\ IF Len(bs) = 0
                     THEN rpc' = "done" /\ outcome' = "returned"
                     ELSE rpc' = "loop" /\ outcome' = "none"
  /\ currentPathParts' = <<>>
  /\ currentLengthMm' = 0
  /\ circuits' = <<>>
  /\ blockIndex' = 0
  /\ UNCHANGED <<quantVars, gridVars, storeVars, turnVars, rayVars>>

PaletteNext ==
  \/ CalculateManyCircuits
  \/ ForEachBlock
  \/ ReturnCircuits

SpecPalette == Init /\ [][PaletteNext]_vars

\* C26: circuits are finalized in creation order: the k-th circuit of the list
\* (k from 0) has the id circuit-k and the colour of the palette at index
\* k mod 6, so a circuit's colour is the next of the palette after that of the
\* circuit before it, and the colours repeat after 6 circuits.
C26_PaletteInCreationOrder ==
  \A k \in 0..(Len(circuits) - 1) :
    /\ circuits[k + 1].id = <<"circuit", k>>
    /\ circuits[k + 1].color
         = <<"#32CD32", "#228B22", "#FF6600", "#0066FF", "#9933FF", "#FF3399">>[(k % 6) + 1]
    /\ k >= 6 => circuits[k + 1].color = circuits[k - 5].color
    /\ k >= 1 => circuits[k + 1].color # circuits[k].color

\* a seventh circuit was returned, in the colour of the first
C26_Witness ==
  /\ Returned
  /\ Len(circuits) >= 7
  /\ circuits[7].id = <<"circuit", 6>>
  /\ circuits[7].color = "#32CD32"

-----
(* createDXFStyleTurn applied to a pair of endpoints *)

CreateDXFStyleTurn ==
  /\ tpc = "idle"
  /\ \E call \in TurnCalls :
       /\ turnArgs' = call
       /\ turnResult' = createDXFStyleTurn(call.p1, call.p2, call.depth, call.side,
                                           call.orientation, call.pxPerMeter)
  /\ tpc' = "returned"
  /\ UNCHANGED <<routerVars, quantVars, gridVars, storeVars, rayVars>>

SpecTurn == Init /\ [][CreateDXFStyleTurn]_vars

\* the straight-line distance between the two endpoints of the call, in mm
TurnGapMm == pxToMm(distance(turnArgs.p1, turnArgs.p2), turnArgs.pxPerMeter)

\* C12 as stated: for two endpoints 40 mm apart createDXFStyleTurn returns the
\* straight fallback, a single line from the first endpoint to the second with
\* length 40 mm.
C12_Gap40StraightFallback ==
  (tpc = "returned" /\ TurnGapMm = Fix(40)) =>
    /\ turnResult.pathData = [shape |-> "line", p1 |-> turnArgs.p1, p2 |-> turnArgs.p2]
    /\ turnResult.lengthMm = Fix(40)

\* C12 amended: for two endpoints 40 mm apart the radius shrinks from 50 mm to
\* half the gap, 20 mm; 40 is not below 2 x 20, so createDXFStyleTurn returns
\* an arc-based turn of radius 20 mm from the first endpoint to the second, with
\* length (4 + pi) x 20 = 142.8 mm (to 0.05 mm), and not the straight fallback.
C12_Gap40ShrunkRadiusTurn ==
  (tpc = "returned" /\ TurnGapMm = Fix(40)) =>
    /\ turnResult.pathData.shape = "turn"
    /\ turnResult.pathData.p1 = turnArgs.p1
    /\ turnResult.pathData.p2 = turnArgs.p2
    /\ turnResult.pathData.radius = mmToPx(Fix(20), turnArgs.pxPerMeter)
    /\ Abs(turnResult.lengthMm - 142832) <= 50

\* a turn has been built between two endpoints 40 mm apart
C12_Witness ==
  /\ tpc = "returned"
  /\ TurnGapMm = Fix(40)
  /\ turnResult.pathData.shape = "turn"

\* C13: for every pair of endpoints, depth and side the length reported by
\* createDXFStyleTurn is at least the straight-line distance between the two
\* endpoints, and equal to it for the straight fallback.
C13_TurnLengthAtLeastDistance ==
  tpc = "returned" =>
    /\ turnResult.lengthMm >= TurnGapMm
    /\ turnResult.pathData.shape = "line" => turnResult.lengthMm = TurnGapMm

------------------------------------------------------------------------\* C28: for a turn that is not the straight fallback the length reported by
-----
(* quantizeLength applied to a length, then to its own result *)

QuantizeLength ==
  /\ qpc = "idle"
  /\ \E mm \in QuantLengths :
       /\ lengthMM' = mm
       /\ quantized' = quantizeLength(mm)
  /\ qpc' = "once"
  /\ UNCHANGED <<requantized, routerVars, gridVars, storeVars, turnVars, rayVars>>

QuantizeAgain ==
  /\ qpc = "once"
  /\ requantized' = quantizeLength(quantized)
  /\ qpc' = "twice"
  /\ UNCHANGED <<lengthMM, quantized, routerVars, gridVars, storeVars, turnVars, rayVars>>

QuantNext ==
  \/ QuantizeLength
  \/ QuantizeAgain

SpecQuantize == Init /\ [][QuantNext]_vars

\* C10: quantizeLength never increases a length, its result is a whole multiple
\* of LENGTH_STEP_MM (100 mm) less than 100 mm below the argument, and applying
\* it to its own result changes nothing.
C10_QuantizeLength ==
  /\ qpc # "idle" =>
       /\ quantized <= lengthMM
       /\ quantized % Fix(LENGTH_STEP_MM) = 0
       /\ lengthMM - quantized < Fix(LENGTH_STEP_MM)
  /\ qpc = "twice" => requantized = quantized

\* a length just under a step boundary has been quantized twice
C10_Witness ==
  /\ qpc = "twice"
  /\ lengthMM % Fix(LENGTH_STEP_MM) = Fix(LENGTH_STEP_MM) - 1
  /\ quantized >= Fix(1000)
  /\ quantized < lengthMM
  /\ requantized = quantized

-----------------------------------------------------------------------------------------------------------------------------------------------------
(* castVerticalRay and castHorizontalRay applied to a polygon *)

\* castVerticalRay(x, polygon) is called
CastVerticalRay ==
  /\ \E scale \in GridScales, outline \in RoomOutlines :
       \E x \in RayCoordinates(Polygon(outline, scale), scale) :
         /\ rayArgs' = [ray |-> "vertical", c |-> x, polygon |-> Polygon(outline, scale)]
         /\ rayResult' = castVerticalRay(x, Polygon(outline, scale))
  /\ UNCHANGED <<routerVars, quantVars, gridVars, storeVars, turnVars>>

\* castHorizontalRay(y, polygon) is called
CastHorizontalRay ==
  /\ \E scale \in GridScales, outline \in RoomOutlines :
       \E y \in RayCoordinates(Transposed(Polygon(outline, scale)), scale) :
         /\ rayArgs' = [ray |-> "horizontal", c |-> y, polygon |-> Polygon(outline, scale)]
         /\ rayResult' = castHorizontalRay(y, Polygon(outline, scale))
  /\ UNCHANGED <<routerVars, quantVars, gridVars, storeVars, turnVars>>

RayNext ==
  \/ CastVerticalRay
  \/ CastHorizontalRay

SpecRay == Init /\ [][RayNext]_vars

\* C24: for every simple polygon and every ray coordinate the two ray casts
\* return the intersection coordinates in ascending order and an even number of
\* them, also when the ray passes through a corner of the polygon or lies along
\* one of its edges.
C24_SortedEvenIntersections ==
  /\ \A k \in 1..(Len(rayResult) - 1) : rayResult[k] <= rayResult[k + 1]
  /\ Len(rayResult) % 2 = 0

-----
(* generateRoomGrid, one loop pass at a time *)

\* generateRoomGrid(room) enters generateCDProfiles: the values before the loop,
\* or the early return of [] when profileCount < 1
GenerateCDProfiles ==
  /\ gpc = "idle"
  /\ \E r \in GridRooms, scale \in GridScales :
       /\ gridRoom' = r
       /\ gridPxPerMeter' = scale
       /\ gpc' = IF GridFrame(r.points, r.orientation, scale).profileCount < 1
                 THEN "plates" ELSE "profiles"
  /\ profileIndex' = 0
  /\ cdProfiles' = <<>>
  /\ UNCHANGED <<pairIndex, heatPlates, routerVars, quantVars, storeVars, turnVars, rayVars>>

\* for (let i = 0; i < profileCount; i++): one pass, or the return of profiles
ProfileLoop ==
  /\ gpc = "profiles"
  /\ IF profileIndex < GridFrame(gridRoom.points, gridRoom.orientation,
                                 gridPxPerMeter).profileCount
     THEN /\ cdProfiles' = ProfileLoopBody(gridRoom.points, gridRoom.orientation,
                                           gridPxPerMeter, profileIndex, cdProfiles)
          /\ profileIndex' = profileIndex + 1
          /\ gpc' = "profiles"
     ELSE /\ gpc' = "plates"
          /\ UNCHANGED <<cdProfiles, profileIndex>>
  /\ UNCHANGED <<gridRoom, gridPxPerMeter, pairIndex, heatPlates, routerVars, quantVars, storeVars, turnVars, rayVars>>

\* generateHeatPlates is entered: [] at once for fewer than 2 profiles
GenerateHeatPlates ==
  /\ gpc = "plates"
  /\ gpc' = IF Len(cdProfiles) < 2 THEN "done" ELSE "pairs"
  /\ pairIndex' = 0
  /\ heatPlates' = <<>>
  /\ UNCHANGED <<gridRoom, gridPxPerMeter, profileIndex, cdProfiles, routerVars, quantVars, storeVars, turnVars, rayVars>>

\* for (let i = 0; i < profiles.length - 1; i++): one pass, or the return
PairLoop ==
  /\ gpc = "pairs"
  /\ IF pairIndex < Len(cdProfiles) - 1
     THEN /\ heatPlates' = PairLoopBody(cdProfiles, gridRoom.systemType, gridRoom.orientation,
                                        gridPxPerMeter, pairIndex, heatPlates)
          /\ pairIndex' = pairIndex + 1
          /\ gpc' = "pairs"
     ELSE /\ gpc' = "done"
          /\ UNCHANGED <<heatPlates, pairIndex>>
  /\ UNCHANGED <<gridRoom, gridPxPerMeter, profileIndex, cdProfiles, routerVars, quantVars, storeVars, turnVars, rayVars>>

GridNext ==
  \/ GenerateCDProfiles
  \/ ProfileLoop
  \/ GenerateHeatPlates
  \/ PairLoop

SpecGrid == Init /\ [][GridNext]_vars

\* the coordinates of a profile or plate along its length and across it
StartOf(seg) == IF seg.orientation = "Vertical" THEN seg.y1 ELSE seg.x1
EndOf(seg) == IF seg.orientation = "Vertical" THEN seg.y2 ELSE seg.x2
AcrossOf(seg) == IF seg.orientation = "Vertical" THEN seg.x1 ELSE seg.y1

\* where the walls of the room cross the line at coordinate c across the profiles
WallCrossings(orientation, c, polygon) ==
  LET walls == IF orientation = "Vertical" THEN polygon ELSE Transposed(polygon)
      hits == EdgeHits(c, walls, 1)
  IN {hits[k] : k \in 1..Len(hits)}

\* C8: every profile pushed by generateCDProfiles lies in the interval
\* [max(rayA[0], rayB[0]), min(rayA[1], rayB[1])] of the rays along its two long
\* edges with at least the wall buffer left at both ends, and no wall crosses
\* either edge within the profile or within the buffer beyond its ends.
C8_ProfileWithinTightestInterval ==
  \A k \in 1..Len(cdProfiles) :
    LET profile == cdProfiles[k]
        bufferPx == GridCalculator_mmToPx(Fix(WALL_BUFFER_MM), gridPxPerMeter)
        edgeA == AcrossOf(profile)
        edgeB == AcrossOf(profile) + profile.width
        rayA == castRay(gridRoom.orientation, edgeA, gridRoom.points)
        rayB == castRay(gridRoom.orientation, edgeB, gridRoom.points)
    IN /\ Len(rayA) >= 2 /\ Len(rayB) >= 2
       /\ StartOf(profile) < EndOf(profile)
       /\ StartOf(profile) >= Max(rayA[1], rayB[1]) + bufferPx
       /\ EndOf(profile) <= Min(rayA[2], rayB[2]) - bufferPx
       /\ \A c \in WallCrossings(gridRoom.orientation, edgeA, gridRoom.points)
                     \cup WallCrossings(gridRoom.orientation, edgeB, gridRoom.points) :
            c <= StartOf(profile) - bufferPx \/ c >= EndOf(profile) + bufferPx

\* a profile stands under a slanted wall: its two rays meet the wall at different
\* places, and the profile keeps the buffer from the nearer one
C8_Witness ==
  /\ gpc = "done"
  /\ \E k \in 1..Len(cdProfiles) :
       LET profile == cdProfiles[k]
           rayA == castRay(gridRoom.orientation, AcrossOf(profile), gridRoom.points)
           rayB == castRay(gridRoom.orientation, AcrossOf(profile) + profile.width,
                           gridRoom.points)
       IN /\ rayA[1] < rayB[1]
          /\ StartOf(profile) - rayA[1]
               < GridCalculator_mmToPx(Fix(WALL_BUFFER_MM + 100), gridPxPerMeter)

\* the pairs of adjacent profiles the plate lies between
PairsAround(plate) ==
  {i \in 1..(Len(cdProfiles) - 1) :
     AcrossOf(cdProfiles[i]) < AcrossOf(plate) /\ AcrossOf(plate) < AcrossOf(cdProfiles[i + 1])}

\* C9: every plate pushed by generateHeatPlates lies between exactly one pair of
\* adjacent profiles (i, i+1); its extent along the profiles is exactly
\* [max(start_i, start_i+1), min(end_i, end_i+1)], which is not empty and lies
\* within the extent of both profiles.
C9_PlateExtentIsCommonOverlap ==
  \A k \in 1..Len(heatPlates) :
    LET plate == heatPlates[k]
    IN /\ Cardinality(PairsAround(plate)) = 1
       /\ \A i \in PairsAround(plate) :
            LET a == cdProfiles[i]
                b == cdProfiles[i + 1]
            IN /\ StartOf(plate) = Max(StartOf(a), StartOf(b))
               /\ EndOf(plate) = Min(EndOf(a), EndOf(b))
               /\ StartOf(plate) < EndOf(plate)
               /\ StartOf(a) <= StartOf(plate) /\ EndOf(plate) <= EndOf(a)
               /\ StartOf(b) <= StartOf(plate) /\ EndOf(plate) <= EndOf(b)

\* plates lie between two profiles that start and end at different places
C9_Witness ==
  /\ gpc = "done"
  /\ \E k \in 1..Len(heatPlates) :
       \E i \in PairsAround(heatPlates[k]) :
         /\ StartOf(cdProfiles[i]) # StartOf(cdProfiles[i + 1])
         /\ EndOf(cdProfiles[i]) # EndOf(cdProfiles[i + 1])

\* the extent of the room across the profiles, and its two ends
AcrossMin(points, orientation) ==
  IF orientation = "Vertical" THEN getBoundingBox(points).minX ELSE getBoundingBox(points).minY
AcrossMax(points, orientation) ==
  IF orientation = "Vertical" THEN getBoundingBox(points).maxX ELSE getBoundingBox(points).maxY

\* the centre line of a profile: x1 (y1) is written as centre - profileWidth / 2
CentreOf(profile) == AcrossOf(profile) + profile.width \div 2

\* the profile loop of generateCDProfiles has run to its end, or was never entered
ProfilesReturned == gpc \in {"plates", "pairs", "done"}

\* C11: generateCDProfiles runs its loop floor((extent - 2 * margin) / spacing) + 1
\* times and returns no profile when that count is below 1; every centre line
\* keeps at least the grid margin from both ends of the bounding box, and when
\* no index is skipped the first centre line is as far from the minimum as the
\* last one is from the maximum; an extent of 2600 mm (usable 2400 mm) gives 7.
C11_CentredProfileCount ==
  ProfilesReturned =>
    LET lo == AcrossMin(gridRoom.points, gridRoom.orientation)
        hi == AcrossMax(gridRoom.points, gridRoom.orientation)
        extentMM == GridCalculator_pxToMm(hi - lo, gridPxPerMeter)
        count == ((extentMM - 2 * Fix(GRID_MARGIN_MM)) \div Fix(CD_PROFILE_SPACING_MM)) + 1
        marginPx == GridCalculator_mmToPx(Fix(GRID_MARGIN_MM), gridPxPerMeter)
    IN /\ count < 1 => cdProfiles = <<>> /\ profileIndex = 0
       /\ count >= 1 => profileIndex = count /\ Len(cdProfiles) <= count
       /\ extentMM = Fix(2600) => profileIndex = 7
       /\ \A k \in 1..Len(cdProfiles) :
            /\ CentreOf(cdProfiles[k]) - lo >= marginPx
            /\ hi - CentreOf(cdProfiles[k]) >= marginPx
       /\ (count >= 1 /\ Len(cdProfiles) = count) =>
            CentreOf(cdProfiles[1]) - lo = hi - CentreOf(cdProfiles[count])

\* the square with 2400 mm between its margins has got its 7 profiles
C11_Witness ==
  /\ gpc = "done"
  /\ GridCalculator_pxToMm(AcrossMax(gridRoom.points, gridRoom.orientation)
                             - AcrossMin(gridRoom.points, gridRoom.orientation),
                           gridPxPerMeter) = Fix(2600)
  /\ Len(cdProfiles) = 7
  /\ CentreOf(cdProfiles[1]) - AcrossMin(gridRoom.points, gridRoom.orientation)
       = GridCalculator_mmToPx(Fix(GRID_MARGIN_MM), gridPxPerMeter)

------------------------------------------------------------------------\* C22: every profile is anchored to one fixed end of its tightest interval
\* [max(rayA[0], rayB[0]), min(rayA[1], rayB[1])]: the far (bottom) limit for
\* Vertical, the near (left) limit for Horizontal.  The gap at the anchored end
\* is exactly the wall buffer; the gap at the other end is at least the wall
\* buffer and less than the wall buffer plus one quantization step.
C22_AnchoredToFixedEnd ==
  \A k \in 1..Len(cdProfiles) :
    LET profile == cdProfiles[k]
        bufferPx == GridCalculator_mmToPx(Fix(WALL_BUFFER_MM), gridPxPerMeter)
        stepPx == GridCalculator_mmToPx(Fix(LENGTH_STEP_MM), gridPxPerMeter)
        rayA == castRay(gridRoom.orientation, AcrossOf(profile), gridRoom.points)
        rayB == castRay(gridRoom.orientation, AcrossOf(profile) + profile.width,
                        gridRoom.points)
        nearGap == StartOf(profile) - Max(rayA[1], rayB[1])
        farGap == Min(rayA[2], rayB[2]) - EndOf(profile)
    IN IF profile.orientation = "Vertical"
       THEN /\ farGap = bufferPx
            /\ bufferPx <= nearGap /\ nearGap < bufferPx + stepPx
       ELSE /\ nearGap = bufferPx
            /\ bufferPx <= farGap /\ farGap < bufferPx + stepPx

\* a profile with a remainder at its free end whose two rays meet the wall of
\* the anchored end at different places
C22_Witness ==
  /\ gpc = "done"
  /\ \E k \in 1..Len(cdProfiles) :
       LET profile == cdProfiles[k]
           bufferPx == GridCalculator_mmToPx(Fix(WALL_BUFFER_MM), gridPxPerMeter)
           rayA == castRay(gridRoom.orientation, AcrossOf(profile), gridRoom.points)
           rayB == castRay(gridRoom.orientation, AcrossOf(profile) + profile.width,
                           gridRoom.points)
       IN IF profile.orientation = "Vertical"
          THEN /\ rayA[2] # rayB[2]
               /\ StartOf(profile) - Max(rayA[1], rayB[1]) > bufferPx
          ELSE /\ rayA[1] # rayB[1]
               /\ Min(rayA[2], rayB[2]) - EndOf(profile) > bufferPx

\* the quantized length of the candidate at loop index i: the tightest interval
\* of the rays along its two edges less the two buffers, rounded down to the
\* step; -1 when a ray meets fewer than two walls
CandidateLengthMM(i) ==
  LET f == GridFrame(gridRoom.points, gridRoom.orientation, gridPxPerMeter)
      current == f.origin + f.startOffsetPx + i * f.spacing
      rayA == castRay(gridRoom.orientation, current - f.profileWidth \div 2, gridRoom.points)
      rayB == castRay(gridRoom.orientation, current + f.profileWidth \div 2, gridRoom.points)
  IN IF Len(rayA) < 2 \/ Len(rayB) < 2 THEN 0 - 1
     ELSE (GridCalculator_pxToMm(Min(rayA[2], rayB[2]) - Max(rayA[1], rayB[1])
                                   - 2 * f.bufferPx, gridPxPerMeter)
             \div Fix(LENGTH_STEP_MM)) * Fix(LENGTH_STEP_MM)

\* C23: the physical length of every profile of generateCDProfiles is a whole
\* multiple of LENGTH_STEP_MM (100 mm) and at least MIN_PROFILE_LENGTH_MM
\* (1000 mm); a candidate whose quantized length is shorter gives no profile.
C23_QuantizedAndLongEnough ==
  (gpc # "idle" /\ gridRoom.points # <<>>) =>
    /\ \A k \in 1..Len(cdProfiles) :
         LET profileLengthMM == GridCalculator_pxToMm(EndOf(cdProfiles[k]) - StartOf(cdProfiles[k]),
                                                gridPxPerMeter)
         IN /\ profileLengthMM % Fix(LENGTH_STEP_MM) = 0
            /\ profileLengthMM >= Fix(MIN_PROFILE_LENGTH_MM)
    /\ \A i \in 0..(profileIndex - 1) :
         CandidateLengthMM(i) < Fix(MIN_PROFILE_LENGTH_MM) =>
           \A k \in 1..Len(cdProfiles) :
             CentreOf(cdProfiles[k])
               # GridFrame(gridRoom.points, gridRoom.orientation, gridPxPerMeter).origin
                   + GridFrame(gridRoom.points, gridRoom.orientation,
                               gridPxPerMeter).startOffsetPx
                   + i * GridFrame(gridRoom.points, gridRoom.orientation,
                                   gridPxPerMeter).spacing

\* a candidate of 900 mm was discarded next to a profile that is not a whole
\* number of steps shorter than its interval
C23_Witness ==
  /\ gpc = "done"
  /\ gridRoom.points # <<>>
  /\ \E i \in 0..(profileIndex - 1) :
       /\ CandidateLengthMM(i) >= Fix(LENGTH_STEP_MM)
       /\ CandidateLengthMM(i) < Fix(MIN_PROFILE_LENGTH_MM)
  /\ \E k \in 1..Len(cdProfiles) :
       GridCalculator_pxToMm(EndOf(cdProfiles[k]) - StartOf(cdProfiles[k]), gridPxPerMeter)
         >= Fix(MIN_PROFILE_LENGTH_MM + LENGTH_STEP_MM)

-----
(* generateHeatPlates applied to a list of profiles *)

\* generateHeatPlates(profiles, systemType, orientation) is called
CallGenerateHeatPlates ==
  /\ gpc = "idle"
  /\ \E call \in PlateCalls :
       /\ gridRoom' = [points |-> <<>>, orientation |-> call.orientation,
                       systemType |-> call.systemType]
       /\ gridPxPerMeter' = call.pxPerMeter
       /\ cdProfiles' = call.profiles
  /\ gpc' = "plates"
  /\ UNCHANGED <<profileIndex, pairIndex, heatPlates, routerVars, quantVars, storeVars, turnVars, rayVars>>

PlatesNext ==
  \/ CallGenerateHeatPlates
  \/ GenerateHeatPlates
  \/ PairLoop

SpecPlates == Init /\ [][PlatesNext]_vars

\* the plates lying between profile i and profile i + 1
PlatesBetween(i) ==
  {heatPlates[k] : k \in {n \in 1..Len(heatPlates) : i \in PairsAround(heatPlates[n])}}

\* the facing edges of profile i and profile i + 1 are exactly TOTAL_SPAN_MM
\* apart and the two profiles overlap along their length
ExactSpanPair(i) ==
  /\ GridCalculator_pxToMm(AcrossOf(cdProfiles[i + 1])
                             - (AcrossOf(cdProfiles[i]) + cdProfiles[i].width),
                           gridPxPerMeter) = Fix(TOTAL_SPAN_MM)
  /\ Max(StartOf(cdProfiles[i]), StartOf(cdProfiles[i + 1]))
       < Min(EndOf(cdProfiles[i]), EndOf(cdProfiles[i + 1]))

\* C14: when the gap between the facing edges of two adjacent profiles is
\* exactly the recipe's span, 336 mm, generateHeatPlates places exactly 4 plates
\* in it for System 4 and 6 for System 6, and the block is centred with no
\* margin left: measured before the fixed visual offset is applied, the first
\* plate begins at the edge of the one profile and the last plate ends at the
\* edge of the other (to 0.01 mm, the recipe's gaps being decimal fractions).
C14_ExactSpanGapFilled ==
  gpc = "done" =>
    \A i \in 1..(Len(cdProfiles) - 1) :
      ExactSpanPair(i) =>
        LET offsetPx == GridCalculator_mmToPx(Fix(VISUAL_OFFSET_MM), gridPxPerMeter)
            gapStart == AcrossOf(cdProfiles[i]) + cdProfiles[i].width
            gapEnd == AcrossOf(cdProfiles[i + 1])
        IN /\ Cardinality(PlatesBetween(i))
                = (IF gridRoom.systemType = "System 4" THEN 4 ELSE 6)
           /\ \E first \in PlatesBetween(i) :
                /\ \A plate \in PlatesBetween(i) : AcrossOf(first) <= AcrossOf(plate)
                /\ AcrossOf(first) - first.width \div 2 + offsetPx = gapStart
           /\ \E last \in PlatesBetween(i) :
                /\ \A plate \in PlatesBetween(i) : AcrossOf(plate) <= AcrossOf(last)
                /\ Abs(AcrossOf(last) + last.width \div 2 + offsetPx - gapEnd) <= 10

\* plates of System 6 stand in a gap of exactly 336 mm next to a gap that was skipped
C14_Witness ==
  /\ gpc = "done"
  /\ gridRoom.systemType = "System 6"
  /\ Len(cdProfiles) = 3
  /\ ExactSpanPair(2)
  /\ Len(heatPlates) = 6
  /\ Cardinality(PlatesBetween(2)) = 6

------------------------------------------------------------------------\* the pairs (i, i + 1) of adjacent profiles whose safe zone is not empty and
\* whose facing edges are at least the recipe's span apart
QualifyingPairs ==
  {i \in 1..(Len(cdProfiles) - 1) :
     /\ Max(StartOf(cdProfiles[i]), StartOf(cdProfiles[i + 1]))
          < Min(EndOf(cdProfiles[i]), EndOf(cdProfiles[i + 1]))
     /\ GridCalculator_pxToMm(AcrossOf(cdProfiles[i + 1])
                                - (AcrossOf(cdProfiles[i]) + cdProfiles[i].width),
                              gridPxPerMeter) >= Fix(TOTAL_SPAN_MM)}

\* C21: generateHeatPlates returns plates only for the adjacent profile pairs
\* whose safe zone is not empty and whose edge-to-edge gap is at least
\* TOTAL_SPAN_MM: the n-th such pair, in the order of the profiles, holds the
\* plates n*count + 1 .. n*count + count of the list (count = 4 for System 4, 6
\* for System 6), each one stride (plate width + the recipe's gap) after the one
\* before; so the list has count x (number of qualifying pairs) plates, none
\* for fewer than 2 profiles.
C21_PlatesOfQualifyingPairs ==
  gpc = "done" =>
    LET count == IF gridRoom.systemType = "System 4" THEN 4 ELSE 6
        stride == GridCalculator_mmToPx(Fix(BROWN_PLATE_WIDTH_MM), gridPxPerMeter)
                    + GridCalculator_mmToPx(IF gridRoom.systemType = "System 4"
                                            THEN SYSTEM_4_GAP_MICRONS
                                            ELSE SYSTEM_6_GAP_MICRONS, gridPxPerMeter)
    IN /\ Len(heatPlates) = count * Cardinality(QualifyingPairs)
       /\ Len(cdProfiles) < 2 => heatPlates = <<>>
       /\ \A m \in 1..Len(heatPlates) :
            /\ \E i \in QualifyingPairs :
                 /\ Cardinality({k \in QualifyingPairs : k < i}) = (m - 1) \div count
                 /\ i \in PairsAround(heatPlates[m])
            /\ (m - 1) % count > 0 =>
                 AcrossOf(heatPlates[m]) - AcrossOf(heatPlates[m - 1]) = stride

\* of three profiles the first pair is skipped and the second holds six plates;
\* the skipped pair has a gap below the span, or profiles that only touch
C21_Witness ==
  /\ gpc = "done"
  /\ gridRoom.systemType = "System 6"
  /\ Len(cdProfiles) = 3
  /\ QualifyingPairs = {2}
  /\ Len(heatPlates) = 6
  /\ heatPlates[1].id = <<"plate-v", 0>>

\* what the n-th block of plates (n from 1) of the list falls short of
\* TOTAL_SPAN_MM, from the near edge of its first plate to the far edge of its
\* last plate, in 1/1000 px
SpanShortfall(n) ==
  LET count == IF gridRoom.systemType = "System 4" THEN 4 ELSE 6
      first == heatPlates[(n - 1) * count + 1]
      last == heatPlates[n * count]
  IN GridCalculator_mmToPx(Fix(TOTAL_SPAN_MM), gridPxPerMeter)
       - ((AcrossOf(last) + last.width \div 2) - (AcrossOf(first) - first.width \div 2))

-----
(* Skips *)

\* what the body of the profile loop pushes for index i on its own, and what
\* the body of the pair loop pushes for pair i on its own
AloneProfile(i) ==
  ProfileLoopBody(gridRoom.points, gridRoom.orientation, gridPxPerMeter, i, <<>>)
AlonePlates(i) ==
  PairLoopBody(cdProfiles, gridRoom.systemType, gridRoom.orientation, gridPxPerMeter, i, <<>>)

\* the segments of a list of profiles or plates, without their ids
SegmentsOf(list) == {<<list[k].x1, list[k].y1, list[k].x2, list[k].y2>> : k \in 1..Len(list)}

\* C17: a skip affects only the profile index or the profile pair concerned.
\* At every point of the two loops the profiles emitted so far are exactly the
\* ones of the indices passed that are valid on their own, and the plates
\* emitted so far exactly the ones of the pairs passed that are valid on their
\* own: nothing emitted earlier is lost, nothing later is left out, and both
\* loops run to their last index.
C17_SkipsAreLocal ==
  /\ (gpc # "idle" /\ gridRoom.points # <<>>) =>
       /\ SegmentsOf(cdProfiles)
            = UNION {SegmentsOf(AloneProfile(i)) : i \in 0..(profileIndex - 1)}
       /\ Len(cdProfiles)
            = Cardinality({i \in 0..(profileIndex - 1) : AloneProfile(i) # <<>>})
  /\ gpc \in {"pairs", "done"} =>
       /\ SegmentsOf(heatPlates)
            = UNION {SegmentsOf(AlonePlates(i)) : i \in 0..(pairIndex - 1)}
       /\ Len(heatPlates)
            = plateCount(gridRoom.systemType)
                * Cardinality({i \in 0..(pairIndex - 1) : AlonePlates(i) # <<>>})
  /\ (gpc = "done" /\ Len(cdProfiles) >= 2) => pairIndex = Len(cdProfiles) - 1

\* an index was skipped between two indices that gave a profile, and a pair
\* was skipped between two pairs that gave plates
C17_Witness ==
  /\ gpc = "done"
  /\ gridRoom.points # <<>>
  /\ \E i \in 1..(profileIndex - 2) :
       /\ AloneProfile(i) = <<>>
       /\ AloneProfile(i - 1) # <<>>
       /\ AloneProfile(i + 1) # <<>>
  /\ \E i \in 1..(pairIndex - 2) :
       /\ AlonePlates(i) = <<>>
       /\ AlonePlates(i - 1) # <<>>
       /\ AlonePlates(i + 1) # <<>>

-----------------------------------------------------------------------------
(* useStore.ts: the application store, and the room dialog that fills it *)

\* calculateCircuits as one function: the blocks.forEach loop from block k on
RECURSIVE ForEachBlockFrom(_, _, _, _, _, _)
ForEachBlockFrom(bs, connectionSide, orientation, pxPerMeter, k, acc) ==
  IF k > Len(bs) THEN acc
  ELSE LET Rest(next) == ForEachBlockFrom(bs, connectionSide, orientation, pxPerMeter,
                                          k + 1, next)
           \* the block's path and the accumulator are each computed once
           stepped == {BlockStep(acc, blockPath) :
                         blockPath \in {generatePatternPaths(bs[k], connectionSide,
                                                             orientation, pxPerMeter, k - 1)}}
           after == {Rest(next) : next \in stepped}
       IN CHOOSE result \in after : TRUE

\* export function calculateCircuits(heatPlates, connectionSide, orientation, pxPerMeter)
calculateCircuits(plates, connectionSide, orientation, pxPerMeter) ==
  IF Len(plates) = 0 THEN <<>>
  ELSE LET Route(bs) ==
             IF Len(bs) = 0 THEN <<>>
             ELSE FinishCircuits(ForEachBlockFrom(bs, connectionSide, orientation, pxPerMeter, 1,
                                                  [parts |-> <<>>, len |-> 0, circuits |-> <<>>]))
           routed == {Route(bs) : bs \in {BlocksOf(plates, orientation)}}
       IN CHOOSE result \in routed : TRUE

\* mutant: a calculator whose scale follows the stored profile spacing
CalculatorOfStoredSpacing(pxPerMeter, storedSettings) ==
  IF storedSettings.cdProfileSpacing > 0
  THEN (pxPerMeter * 400) \div storedSettings.cdProfileSpacing
  ELSE pxPerMeter

\* new GridCalculator(pxPerMeter, settings): the constructor has one parameter,
\* pxPerMeter, and keeps it; the second argument of the store's calls is
\* dropped, the millimetre constants are the class's own fields
NewGridCalculator(pxPerMeter, storedSettings) == pxPerMeter

\* generateRoomGrid(room): the room with cdProfiles and heatPlates replaced.
\* (area, profileStats and plateMaterials are not part of the model's Room.)
generateRoomGrid(room, pxPerMeter) ==
  LET Grid(profiles) ==
        [room EXCEPT !.cdProfiles = profiles,
                     !.heatPlates = generateHeatPlates(profiles, room.systemType,
                                                       room.orientation, pxPerMeter)]
      grids == {Grid(profiles) :
                  profiles \in {generateCDProfiles(room.points, room.orientation, pxPerMeter)}}
  IN CHOOSE result \in grids : TRUE

\* { ...object, ...updates }
Spread(object, updates) ==
  [f \in DOMAIN object |-> IF f \in DOMAIN updates THEN updates[f] ELSE object[f]]

\* mutant: the first room, whatever its id
IndexOfFirst(rs, roomId) == IF Len(rs) = 0 THEN 0 ELSE 1

\* state.rooms.findIndex((r) => r.id === roomId): 0 for -1, else 1-based
findIndex(rs, roomId) ==
  IF \E k \in 1..Len(rs) : rs[k].id = roomId
  THEN CHOOSE k \in 1..Len(rs) : rs[k].id = roomId /\ \A j \in 1..(k - 1) : rs[j].id # roomId
  ELSE 0

\* state.rooms.map((r, i) => i === roomIndex ? room : r)
ReplaceAt(rs, roomIndex, room) == [k \in 1..Len(rs) |-> IF k = roomIndex THEN room ELSE rs[k]]

\* ---- inputs
StoreScales == {500, 1000}
RoomIds == {"1"}
RoomNames == {"", "A"}

\* corners picked on the plan, in px
StoreOutline == <<Pt(0, 0), Pt(1200, 0), Pt(1200, 2000), Pt(0, 2000)>>
DraggedOutline == <<Pt(0, 0), Pt(1200, 0), Pt(1200, 2400), Pt(0, 2400)>>
PixelPoint(p) == [x |-> Fix(p.x), y |-> Fix(p.y)]
PixelPolygon(outline) == [k \in 1..Len(outline) |-> PixelPoint(outline[k])]

CalibrationLines ==
  {[start |-> PixelPoint(Pt(0, 0)), end |-> PixelPoint(Pt(1000, 0)), realLengthMeters |-> m] :
     m \in {1}}

RoomUpdates ==
  {[systemType |-> "System 6"], [orientation |-> "Horizontal"], [connectionSide |-> "top"]}

ConnectionPoints == {PixelPoint(Pt(600, 3000))}

\* Partial<GlobalSettings>: a profile spacing of 0
SettingsUpdates == {[cdProfileSpacing |-> 0]}

\* ---- actions

\* setCalibrationLine(line)
SetCalibrationLine ==
  /\ \E line \in {<<l>> : l \in CalibrationLines} \cup {<<>>} :
       calibration' = [calibration EXCEPT !.line = line]
  /\ UNCHANGED <<pdf, rooms, roomDrawing, settings, routerVars, quantVars, gridVars, turnVars, rayVars>>
  /\ notice' = "none"

\* setPxPerMeter(pxPerMeter)
SetPxPerMeter ==
  /\ \E pxPerMeter \in StoreScales \cup {0, -1000} :
       pdf' = [pdf EXCEPT !.pxPerMeter = pxPerMeter]
  /\ UNCHANGED <<calibration, rooms, roomDrawing, settings, routerVars, quantVars, gridVars, turnVars, rayVars>>
  /\ notice' = "none"

\* completeCalibration(): pxPerMeter = pixelLength / realLengthMeters
CompleteCalibration ==
  /\ IF calibration.line # <<>> /\ calibration.line[1].realLengthMeters # 0
     THEN LET line == calibration.line[1]
              pixelLength == distance(line.start, line.end)
          IN /\ pdf' = [pdf EXCEPT !.pxPerMeter = (pixelLength \div 1000) \div line.realLengthMeters]
             /\ calibration' = [isCalibrating |-> FALSE, line |-> <<>>, isDrawingLine |-> FALSE]
     ELSE UNCHANGED <<pdf, calibration>>
  /\ UNCHANGED <<rooms, roomDrawing, settings, routerVars, quantVars, gridVars, turnVars, rayVars>>
  /\ notice' = "none"

\* addRoomPoint(point): the corners of the outline, in order, while a room can
\* still be created
addRoomPoint(ids) ==
  /\ Len(roomDrawing.currentPoints) < Len(StoreOutline)
  /\ \E id \in ids : \A k \in 1..Len(rooms) : rooms[k].id # id
  /\ LET point == PixelPoint(StoreOutline[Len(roomDrawing.currentPoints) + 1])
     IN roomDrawing' = [roomDrawing EXCEPT !.currentPoints = Append(@, point)]
  /\ UNCHANGED <<pdf, calibration, rooms, settings, routerVars, quantVars, gridVars, turnVars, rayVars>>
  /\ notice' = "none"

AddRoomPoint == addRoomPoint(RoomIds)

\* mutant: two points are taken for a room
FewerThanTwo(currentPoints) == Len(currentPoints) < 2

\* if (roomDrawing.currentPoints.length < 3)
TooFewPoints(currentPoints) == Len(currentPoints) < 3

\* closeRoomPolygon(): an alert and no change below 3 points; the id of the
\* pending room (room-${Date.now()}) is one of ids that no stored room has
closeRoomPolygon(ids) ==
  /\ notice' = IF TooFewPoints(roomDrawing.currentPoints)
               THEN "A room needs at least 3 points" ELSE "none"
  /\ IF TooFewPoints(roomDrawing.currentPoints)
     THEN UNCHANGED roomDrawing
     ELSE \E id \in ids :
            /\ \A k \in 1..Len(rooms) : rooms[k].id # id
            /\ roomDrawing' =
                 [roomDrawing EXCEPT !.pendingRoom =
                    <<[id |-> id, name |-> "", points |-> roomDrawing.currentPoints,
                       systemType |-> "System 4", orientation |-> "Vertical",
                       connectionSide |-> "bottom", connectionPoint |-> <<>>,
                       cdProfiles |-> <<>>, heatPlates |-> <<>>, heatingCircuits |-> <<>>]>>]
  /\ UNCHANGED <<pdf, calibration, rooms, settings, routerVars, quantVars, gridVars, turnVars, rayVars>>

CloseRoomPolygon == closeRoomPolygon(RoomIds)

\* cancelRoomDrawing()
CancelRoomDrawing ==
  /\ roomDrawing' = [isActive |-> FALSE, currentPoints |-> <<>>, pendingRoom |-> <<>>]
  /\ UNCHANGED <<pdf, calibration, rooms, settings, routerVars, quantVars, gridVars, turnVars, rayVars>>
  /\ notice' = "none"

\* finishRoom()
FinishRoom ==
  /\ IF roomDrawing.pendingRoom # <<>>
     THEN /\ rooms' = Append(rooms, roomDrawing.pendingRoom[1])
          /\ roomDrawing' = [isActive |-> FALSE, currentPoints |-> <<>>, pendingRoom |-> <<>>]
     ELSE UNCHANGED <<rooms, roomDrawing>>
  /\ UNCHANGED <<pdf, calibration, settings, routerVars, quantVars, gridVars, turnVars, rayVars>>
  /\ notice' = "none"

\* RoomPropertiesModal.handleGenerate: the dialog is shown for a pending room;
\* an empty name or a missing scale is an alert; else the room is generated,
\* stored as the pending room and finished
HandleGenerate ==
  /\ roomDrawing.pendingRoom # <<>>
  /\ \E name \in RoomNames, systemType \in SystemTypes, orientation \in Orientations :
       IF name = "" \/ pdf.pxPerMeter = 0
       THEN /\ notice' = IF name = "" THEN "name the room" ELSE "calibrate the scale first"
            /\ UNCHANGED <<rooms, roomDrawing>>
       ELSE LET pendingRoom == roomDrawing.pendingRoom[1]
                roomWithGrid ==
                  generateRoomGrid([pendingRoom EXCEPT !.connectionSide = "bottom",
                                                       !.connectionPoint = <<>>,
                                                       !.name = name,
                                                       !.systemType = systemType,
                                                       !.orientation = orientation],
                                   NewGridCalculator(pdf.pxPerMeter, settings))
            IN /\ rooms' = Append(rooms, roomWithGrid)
               /\ roomDrawing' = [isActive |-> FALSE, currentPoints |-> <<>>,
                                  pendingRoom |-> <<>>]
               /\ notice' = "none"
  /\ UNCHANGED <<pdf, calibration, settings, routerVars, quantVars, gridVars, turnVars, rayVars>>

\* deleteRoom(roomId)
DeleteRoom ==
  /\ \E roomId \in RoomIds :
       rooms' = SelectSeq(rooms, LAMBDA r : r.id # roomId)
  /\ UNCHANGED <<pdf, calibration, roomDrawing, settings, routerVars, quantVars, gridVars, turnVars, rayVars>>
  /\ notice' = "none"

\* updateRoom(roomId, updates)
updateRoom(roomId, updates) ==
  /\ LET roomIndex == findIndex(rooms, roomId)
        regenerates == DOMAIN updates \cap {"systemType", "orientation", "connectionSide"} # {}
    IN IF roomIndex = 0 THEN notice' = "room not found" /\ UNCHANGED rooms
       ELSE LET updatedRoom == Spread(rooms[roomIndex], updates)
            IN IF regenerates /\ pdf.pxPerMeter # 0
               THEN /\ rooms' = ReplaceAt(rooms, roomIndex,
                                          generateRoomGrid(updatedRoom, NewGridCalculator(pdf.pxPerMeter, settings)))
                    /\ notice' = "none"
               ELSE /\ rooms' = ReplaceAt(rooms, roomIndex, updatedRoom)
                    /\ notice' = IF regenerates THEN "no pxPerMeter set" ELSE "none"
  /\ UNCHANGED <<pdf, calibration, roomDrawing, settings, routerVars, quantVars, gridVars, turnVars, rayVars>>

UpdateRoom == \E roomId \in RoomIds, updates \in RoomUpdates : updateRoom(roomId, updates)

\* updateRoomPoints(roomId, newPoints): the points only
UpdateRoomPoints ==
  /\ \E roomId \in RoomIds, newPoints \in {PixelPolygon(DraggedOutline)} :
       rooms' = [k \in 1..Len(rooms) |->
                   IF rooms[k].id = roomId THEN [rooms[k] EXCEPT !.points = newPoints]
                   ELSE rooms[k]]
  /\ UNCHANGED <<pdf, calibration, roomDrawing, settings, routerVars, quantVars, gridVars, turnVars, rayVars>>
  /\ notice' = "none"

\* finalizeRoomPoints(roomId)
finalizeRoomPoints(roomId) ==
  /\ LET roomIndex == findIndex(rooms, roomId)
    IN IF roomIndex = 0 \/ pdf.pxPerMeter = 0
       THEN /\ notice' = IF roomIndex = 0 THEN "room not found" ELSE "no pxPerMeter set"
            /\ UNCHANGED rooms
       ELSE /\ rooms' = ReplaceAt(rooms, roomIndex,
                                  generateRoomGrid(rooms[roomIndex], NewGridCalculator(pdf.pxPerMeter, settings)))
            /\ notice' = "none"
  /\ UNCHANGED <<pdf, calibration, roomDrawing, settings, routerVars, quantVars, gridVars, turnVars, rayVars>>

FinalizeRoomPoints == \E roomId \in RoomIds : finalizeRoomPoints(roomId)

\* setConnectionPoint(roomId, point)
setConnectionPoint(roomId, point) ==
  /\ LET roomIndex == findIndex(rooms, roomId)
    IN IF roomIndex = 0 THEN notice' = "room not found" /\ UNCHANGED rooms
       ELSE LET updatedRoom == [rooms[roomIndex] EXCEPT !.connectionPoint = <<point>>]
            IN /\ notice' = "none"
               /\ IF pdf.pxPerMeter # 0
                  THEN rooms' = ReplaceAt(rooms, roomIndex,
                                          generateRoomGrid(updatedRoom, NewGridCalculator(pdf.pxPerMeter, settings)))
                  ELSE rooms' = ReplaceAt(rooms, roomIndex, updatedRoom)
  /\ UNCHANGED <<pdf, calibration, roomDrawing, settings, routerVars, quantVars, gridVars, turnVars, rayVars>>

SetConnectionPoint ==
  \E roomId \in RoomIds, point \in ConnectionPoints : setConnectionPoint(roomId, point)

\* updateSettings(newSettings): the settings are merged and stored, then every
\* room is recalculated by a calculator made from get().settings
updateSettings(newSettings) ==
  /\ settings' = Spread(settings, newSettings)
  /\ IF pdf.pxPerMeter # 0 /\ Len(rooms) > 0
     THEN rooms' = [k \in 1..Len(rooms) |->
                     generateRoomGrid(rooms[k], NewGridCalculator(pdf.pxPerMeter, settings'))]
     ELSE UNCHANGED rooms
  /\ UNCHANGED <<pdf, calibration, roomDrawing, routerVars, quantVars, gridVars, turnVars, rayVars>>
  /\ notice' = "none"

UpdateSettings == \E newSettings \in SettingsUpdates : updateSettings(newSettings)

\* setRoomDrawingActive(isActive)
SetRoomDrawingActive ==
  /\ \E isActive \in BOOLEAN :
       roomDrawing' = [roomDrawing EXCEPT
                         !.isActive = isActive,
                         !.currentPoints = IF isActive THEN <<>> ELSE @]
  /\ notice' = "none"
  /\ UNCHANGED <<pdf, calibration, rooms, settings, routerVars, quantVars, gridVars, turnVars, rayVars>>

\* setPendingRoomProperties(name, systemType, orientation, connectionSide?)
SetPendingRoomProperties ==
  /\ \E name \in RoomNames, systemType \in SystemTypes, orientation \in Orientations,
        connectionSide \in {<<>>, <<"top">>} :
       IF roomDrawing.pendingRoom # <<>>
       THEN roomDrawing' =
              [roomDrawing EXCEPT
                 !.pendingRoom =
                    <<[@[1] EXCEPT !.name = name, !.systemType = systemType,
                                   !.orientation = orientation,
                                   !.connectionSide = IF connectionSide = <<>> THEN @
                                                      ELSE connectionSide[1]]>>]
       ELSE UNCHANGED roomDrawing
  /\ notice' = "none"
  /\ UNCHANGED <<pdf, calibration, rooms, settings, routerVars, quantVars, gridVars, turnVars, rayVars>>

StoreNext ==
  \/ SetCalibrationLine
  \/ SetPxPerMeter
  \/ CompleteCalibration
  \/ AddRoomPoint
  \/ CloseRoomPolygon
  \/ CancelRoomDrawing
  \/ FinishRoom
  \/ HandleGenerate
  \/ DeleteRoom
  \/ UpdateRoom
  \/ UpdateRoomPoints
  \/ FinalizeRoomPoints
  \/ SetConnectionPoint
  \/ UpdateSettings

SpecStore == Init /\ [][StoreNext]_vars

-----------------------------------------------------------------------------
(* Derived entities of the stored rooms *)

\* what the profiles, plates and circuits of a room are derived from, besides
\* the calibration scale
RoomInputs(room) == <<room.points, room.orientation, room.systemType, room.connectionSide>>

\* the room's profiles, plates and circuits are the ones computed from its
\* current polygon, orientation, system type and connection side at pxPerMeter
IsRecomputed(room, pxPerMeter) ==
  \E profiles \in {generateCDProfiles(room.points, room.orientation, pxPerMeter)} :
    \E plates \in {generateHeatPlates(profiles, room.systemType, room.orientation,
                                      pxPerMeter)} :
      /\ room.cdProfiles = profiles
      /\ room.heatPlates = plates
      /\ room.heatingCircuits =
           calculateCircuits(plates, room.connectionSide, room.orientation, pxPerMeter)

\* C7: whenever a store operation changes a stored room's polygon, orientation,
\* system type or connection side, or the calibration scale, and a scale is
\* set, the room's profiles, plates and circuits are afterwards the ones
\* computed from the current values.
C7_DerivedEntitiesRecomputed ==
  [][pdf'.pxPerMeter # 0 =>
       \A k \in 1..Len(rooms) :
         (/\ k <= Len(rooms')
          /\ rooms'[k].id = rooms[k].id
          /\ \/ RoomInputs(rooms'[k]) # RoomInputs(rooms[k])
             \/ pdf'.pxPerMeter # pdf.pxPerMeter)
           => IsRecomputed(rooms'[k], pdf'.pxPerMeter)]_vars

-----------------------------------------------------------------------------
(* Refusals: a missing scale, an invalid configuration *)

\* the profiles, plates and circuits stored with a room
Geometry(room) == <<room.cdProfiles, room.heatPlates, room.heatingCircuits>>

\* the step computes no layout: every room that stays keeps its profiles,
\* plates and circuits, and a room that is new has none
NoLayoutComputed ==
  \A k \in 1..Len(rooms') :
    IF k <= Len(rooms) /\ rooms[k].id = rooms'[k].id
    THEN Geometry(rooms'[k]) = Geometry(rooms[k])
    ELSE Geometry(rooms'[k]) = <<<<>>, <<>>, <<>>>>

\* the step is one after which the store runs generateRoomGrid: the settings
\* change while rooms are stored (updateSettings), or a stored room's system
\* type, orientation or connection side (updateRoom) or its connection point
\* (setConnectionPoint) changes
LayoutRequested ==
  \/ settings' # settings /\ Len(rooms) > 0
  \/ \E k \in 1..Len(rooms) :
       /\ k <= Len(rooms') /\ rooms'[k].id = rooms[k].id
       /\ <<rooms'[k].systemType, rooms'[k].orientation, rooms'[k].connectionSide,
            rooms'[k].connectionPoint>>
            # <<rooms[k].systemType, rooms[k].orientation, rooms[k].connectionSide,
                rooms[k].connectionPoint>>

\* C15: while the calibration scale is absent (null, 0 here) or not positive,
\* no operation computes a layout (no stored room gets new profiles, plates or
\* circuits), and an operation that would have run the layout tells that the
\* scale is missing instead.
C15_UncalibratedRefused ==
  [][pdf.pxPerMeter <= 0 =>
       /\ NoLayoutComputed
       /\ LayoutRequested =>
            notice' \in {"no pxPerMeter set", "calibrate the scale first"}]_vars

\* C16: with an invalid configuration (here a profile spacing of 0) and a
\* scale set, no operation computes a layout, and an operation that constructs
\* the engine to run the layout reports an error.
C16_InvalidConfigurationRejected ==
  [][(settings'.cdProfileSpacing <= 0 /\ pdf.pxPerMeter > 0) =>
       /\ NoLayoutComputed
       /\ LayoutRequested => notice' # "none"]_vars

-----------------------------------------------------------------------------
(* Drawing a room *)

DrawingNext ==
  \/ SetRoomDrawingActive
  \/ AddRoomPoint
  \/ CloseRoomPolygon
  \/ SetPendingRoomProperties
  \/ FinishRoom
  \/ CancelRoomDrawing

SpecDrawing == Init /\ [][DrawingNext]_vars

\* C18: under setRoomDrawingActive, addRoomPoint, closeRoomPolygon,
\* setPendingRoomProperties, finishRoom and cancelRoomDrawing every stored room
\* has at least 3 polygon points; no step creates a pending room while fewer
\* than 3 points are drawn, and no step adds a room while none is pending.
C18_RoomsHaveThreePoints ==
  [][/\ \A k \in 1..Len(rooms') : Len(rooms'[k].points) >= 3
     /\ (Len(roomDrawing.currentPoints) < 3 /\ roomDrawing.pendingRoom = <<>>)
          => roomDrawing'.pendingRoom = <<>>
     /\ roomDrawing.pendingRoom = <<>> => rooms' = rooms]_vars

\* a room of 3 points has been named and stored, and drawing has begun anew
C18_Witness ==
  /\ Len(rooms) = 1
  /\ Len(rooms[1].points) = 3
  /\ rooms[1].name = "A"
  /\ rooms[1].connectionSide = "top"
  /\ roomDrawing.isActive

-----------------------------------------------------------------------------
(* Operations on one room of several *)

\* the ids two rooms are created with, and the ids the operations are called
\* with: "3" is never the id of a room
TwoRoomIds == {"1", "2"}
LookupIds == {"1", "2", "3"}

AddPointOfTwoRooms == addRoomPoint(TwoRoomIds)
ClosePolygonOfTwoRooms == closeRoomPolygon(TwoRoomIds)
UpdateRoomById ==
  \E roomId \in LookupIds, updates \in {[systemType |-> "System 6"]} :
    updateRoom(roomId, updates)
FinalizeRoomPointsById == \E roomId \in LookupIds : finalizeRoomPoints(roomId)
SetConnectionPointById ==
  \E roomId \in LookupIds, point \in ConnectionPoints : setConnectionPoint(roomId, point)

RoomsNext ==
  \/ SetCalibrationLine
  \/ CompleteCalibration
  \/ AddPointOfTwoRooms
  \/ ClosePolygonOfTwoRooms
  \/ FinishRoom
  \/ UpdateRoomById
  \/ FinalizeRoomPointsById
  \/ SetConnectionPointById

SpecRooms == Init /\ [][RoomsNext]_vars

\* the step is updateRoom, finalizeRoomPoints or setConnectionPoint for roomId
OperatesOn(roomId) ==
  \/ \E updates \in {[systemType |-> "System 6"]} : updateRoom(roomId, updates)
  \/ finalizeRoomPoints(roomId)
  \/ \E point \in ConnectionPoints : setConnectionPoint(roomId, point)

\* C29: updateRoom, finalizeRoomPoints and setConnectionPoint called with a room
\* id that is not in the store leave the whole store state unchanged; called
\* with the id of a stored room they change that room only: the list keeps its
\* length, every room keeps its place and id, every other room its content, and
\* nothing else in the store changes.
C29_OnlyTheNamedRoomChanges ==
  [][\A roomId \in LookupIds :
       OperatesOn(roomId) =>
         /\ UNCHANGED <<pdf, calibration, roomDrawing, settings>>
         /\ Len(rooms') = Len(rooms)
         /\ \A k \in 1..Len(rooms) :
              /\ rooms'[k].id = rooms[k].id
              /\ rooms[k].id # roomId => rooms'[k] = rooms[k]
         /\ (\A k \in 1..Len(rooms) : rooms[k].id # roomId) => rooms' = rooms]_vars

\* two rooms are stored; the second was given a connection point and a layout,
\* the first is as it was drawn
C29_Witness ==
  /\ Len(rooms) = 2
  /\ pdf.pxPerMeter > 0
  /\ rooms[1].connectionPoint = <<>>
  /\ rooms[1].cdProfiles = <<>>
  /\ rooms[2].connectionPoint # <<>>
  /\ rooms[2].cdProfiles # <<>>
  /\ notice = "room not found"

-----------------------------------------------------------------------------
(* Rooms recalculated under changing settings *)

\* what updateSettings is called with, and every GlobalSettings value that the
\* calls can leave in the store
SettingsChanges ==
  {[cdProfileSpacing |-> 0], [cdProfileSpacing |-> 800], [wallBuffer |-> 500],
   [cdProfileSpacing |-> 400, wallBuffer |-> 250]}
StoredSettings == [cdProfileSpacing : {0, 400, 800}, wallBuffer : {250, 500}]

UpdateSettingsTo == \E newSettings \in SettingsChanges : updateSettings(newSettings)

SettingsNext ==
  \/ SetPxPerMeter
  \/ AddRoomPoint
  \/ CloseRoomPolygon
  \/ FinishRoom
  \/ SetConnectionPoint
  \/ UpdateSettingsTo

SpecSettings == Init /\ [][SettingsNext]_vars

\* C30: the layout does not depend on the store's settings: when updateSettings
\* recalculates the rooms, every room gets the profiles and plates that
\* generateRoomGrid returns for that room and the calibration scale under any
\* settings the store can hold, the ones just stored and the ones before
\* among them.
C30_LayoutIndependentOfSettings ==
  [][\A newSettings \in SettingsChanges :
       (updateSettings(newSettings) /\ pdf.pxPerMeter # 0) =>
         \A k \in 1..Len(rooms), stored \in StoredSettings \cup {settings, settings'} :
           rooms'[k] = generateRoomGrid(rooms[k], NewGridCalculator(pdf.pxPerMeter, stored))]_vars

\* a room has a layout of profiles and plates, and the settings in the store
\* are no longer the initial ones in either field
C30_Witness ==
  /\ Len(rooms) = 1
  /\ pdf.pxPerMeter > 0
  /\ rooms[1].cdProfiles # <<>>
  /\ rooms[1].heatPlates # <<>>
  /\ settings.cdProfileSpacing = 800
  /\ settings.wallBuffer = 500

====
